---- MODULE Spec2Model ----
(***************************************************************************)
(* Model of the statement pipeline of agentic-finance-review (webapp):     *)
(* custom rule engine (lib/custom-rules.ts), rule store and rule editor,   *)
(* validators (lib/validators.ts), IIF exporter (lib/iif-exporter.ts) and  *)
(* categorizer (lib/categorizer.ts).                                       *)
(*                                                                         *)
(* Money is an integer number of units of 1/100 cent (0.0001 currency      *)
(* units), so that a whole-cent amount times an integer percentage is      *)
(* exact; the code's IEEE doubles are modelled by exact arithmetic.        *)
(* Text is a sequence of one-character strings.  An optional field is a    *)
(* sequence of length 0 (absent / undefined) or 1 (present).               *)
(***************************************************************************)
EXTENDS Integers, Sequences, FiniteSets, TLC

VARIABLES
  store,        \* localStorage["financeRules"]: the persisted rule list
  editorRules,  \* RulesEditor's React state `rules`
  now,          \* Date.now()
  base,         \* Dashboard `data.transactions` (categorized, no rules applied)
  processed,    \* Dashboard `processedTransactions`
  calls,        \* every applyRule(txn, rule) call of the last applyRulesToAll
  iif,          \* the export text of the last generateIIF, as lines of fields
  iifResult,    \* the validateIIF result for iif
  content,      \* validateIIF's input, a list of lines
  vs,           \* validateIIF's loop state after the lines of content
  rows,         \* validateBalanceConsistency's input rows (newest first)
  balErrors,    \* validateBalanceConsistency's returned errors
  catIn,        \* categorizeAllTransactions' input list
  catOnce,      \* categorizeAllTransactions(catIn)
  catTwice,     \* categorizeAllTransactions(categorizeAllTransactions(catIn))
  parsed,       \* transactions returned by parseCSV / parseQBO
  lastOp,       \* the last rule-store call: function, arguments, returned value
  validations,  \* Dashboard `validations`: one validateParsedCSV result per file
  exportLog,    \* what the last handleExportIIF did, in order
  isLoading,    \* Dashboard `isLoading`
  financeData,  \* localStorage["financeData"]: the uploaded files
  qbo           \* the QBOParseResult of the last parseQBO

vars == <<store, editorRules, now, base, processed, calls, iif, iifResult,
          content, vs, rows, balErrors, catIn, catOnce, catTwice, parsed, lastOp,
          validations, exportLog, isLoading, financeData, qbo>>

-----------------------------------------------------------------------------
(* Optional values *)

None == <<>>
Some(v) == <<v>>
IsSome(o) == o # <<>>
Get(o) == o[1]

-----------------------------------------------------------------------------
(* Text *)

UpperAlpha == <<"A","B","C","D","E","F","G","H","I","J","K","L","M",
                "N","O","P","Q","R","S","T","U","V","W","X","Y","Z">>
LowerAlpha == <<"a","b","c","d","e","f","g","h","i","j","k","l","m",
                "n","o","p","q","r","s","t","u","v","w","x","y","z">>

\* String.prototype.toLowerCase, one character
LowerCh(c) ==
  IF \E i \in 1..Len(UpperAlpha) : UpperAlpha[i] = c
  THEN LowerAlpha[CHOOSE i \in 1..Len(UpperAlpha) : UpperAlpha[i] = c]
  ELSE c

ToLower(s) == [i \in 1..Len(s) |-> LowerCh(s[i])]

\* String.prototype.includes / startsWith / endsWith
Includes(s, p) ==
  \E i \in 0..(Len(s) - Len(p)) : SubSeq(s, i + 1, i + Len(p)) = p
StartsWith(s, p) == Len(p) <= Len(s) /\ SubSeq(s, 1, Len(p)) = p
EndsWith(s, p) == Len(p) <= Len(s) /\ SubSeq(s, Len(s) - Len(p) + 1, Len(s)) = p

IsSpace(c) == c \in {" ", "\t", "\n", "\r"}

\* String.prototype.trim
RECURSIVE TrimLeft(_)
TrimLeft(s) == IF s # <<>> /\ IsSpace(Head(s)) THEN TrimLeft(Tail(s)) ELSE s
RECURSIVE TrimRight(_)
TrimRight(s) ==
  IF s # <<>> /\ IsSpace(s[Len(s)]) THEN TrimRight(SubSeq(s, 1, Len(s) - 1)) ELSE s
Trim(s) == TrimRight(TrimLeft(s))

\* new RegExp(p): the modelled patterns are literal characters, "." and
\* parentheses; a pattern whose parentheses do not balance does not compile.
RECURSIVE ParenDepth(_, _)
ParenDepth(p, d) ==
  IF p = <<>> THEN d
  ELSE IF d < 0 THEN d
  ELSE ParenDepth(Tail(p), IF Head(p) = "(" THEN d + 1
                           ELSE IF Head(p) = ")" THEN d - 1 ELSE d)
RegexCompiles(p) == ParenDepth(p, 0) = 0

\* new RegExp(p, 'i').test(s) for a compiled pattern of literals and "."
RegexTest(p, s) ==
  \E i \in 0..(Len(s) - Len(p)) :
    \A j \in 1..Len(p) : p[j] = "." \/ LowerCh(p[j]) = LowerCh(s[i + j])

DecDigits == <<"0","1","2","3","4","5","6","7","8","9">>
IsDigit(c) == \E i \in 1..Len(DecDigits) : DecDigits[i] = c
DigitValue(c) == (CHOOSE i \in 1..Len(DecDigits) : DecDigits[i] = c) - 1

\* Number.prototype.toString of a natural number
RECURSIVE NatToText(_)
NatToText(n) ==
  IF n < 10 THEN <<DecDigits[n + 1]>>
  ELSE NatToText(n \div 10) \o <<DecDigits[(n % 10) + 1]>>

\* String.prototype.padStart(2, '0') of a natural number
Pad2(n) == IF n < 10 THEN <<"0">> \o NatToText(n) ELSE NatToText(n)

\* Array.prototype.join
RECURSIVE Join(_, _)
Join(parts, sep) ==
  IF parts = <<>> THEN <<>>
  ELSE IF Len(parts) = 1 THEN parts[1]
  ELSE parts[1] \o sep \o Join(Tail(parts), sep)

\* String.prototype.split(separator) for a one-character separator: the
\* parts between the consecutive positions of the separator
SplitOn(s, c) ==
  LET breaks == {i \in 1..Len(s) : s[i] = c}
      n == Cardinality(breaks)
      at(k) == IF k = 0 THEN 0
               ELSE IF k = n + 1 THEN Len(s) + 1
               ELSE CHOOSE i \in breaks : Cardinality({j \in breaks : j < i}) = k - 1
  IN [k \in 1..(n + 1) |-> SubSeq(s, at(k - 1) + 1, at(k) - 1)]

\* String.prototype.split('\t')
SplitTab(s) == SplitOn(s, "\t")

\* String.prototype.split(/\r?\n/): a \r right before the \n goes with it
SplitLines(s) ==
  LET parts == SplitOn(s, "\n")
  IN [k \in 1..Len(parts) |->
        IF k < Len(parts) /\ parts[k] # <<>> /\ parts[k][Len(parts[k])] = "\r"
        THEN SubSeq(parts[k], 1, Len(parts[k]) - 1)
        ELSE parts[k]]

-----------------------------------------------------------------------------
(* Money *)

UnitsPerCent == 100
Cents(c) == c * UnitsPerCent
Abs(x) == IF x < 0 THEN -x ELSE x
Min(a, b) == IF a < b THEN a ELSE b

\* Math.round(x * 100) / 100: to the nearest cent, a half goes up
RoundCents(x) == ((x + UnitsPerCent \div 2) \div UnitsPerCent) * UnitsPerCent

\* the tolerance 0.01 of the validators and of the remainder test
Tolerance == 100

RECURSIVE SumAmounts(_)
SumAmounts(ts) == IF ts = <<>> THEN 0 ELSE Head(ts).amount + SumAmounts(Tail(ts))

-----------------------------------------------------------------------------
(* Transactions (csv-processor.ts Transaction, custom-rules.ts               *)
(* SplitTransaction).  isSplit, splitParentId, splitIndex, originalAmount    *)
(* and splitMemo are optional: a plain Transaction carries none of them.     *)

Uncategorized == <<"U","n","c","a","t","e","g","o","r","i","z","e","d">>

Transaction(date, description, amount, type, category, balance, account) ==
  [date |-> date, description |-> description, amount |-> amount, type |-> type,
   category |-> category, balance |-> balance, account |-> account,
   isSplit |-> None, splitParentId |-> None, splitIndex |-> None,
   originalAmount |-> None, splitMemo |-> None]

\* a truthy optional string: present and not ''
Truthy(o) == IsSome(o) /\ Get(o) # <<>>

-----------------------------------------------------------------------------
(* Rule matching (custom-rules.ts) *)

FieldValue(transaction, field) ==
  IF field = "description" THEN transaction.description ELSE transaction.category

\* the same with a pattern that does not compile taken as a match
MatchText_BrokenMatches(matchType, fieldValue, matchValue, pattern) ==
  CASE matchType = "contains" -> Includes(fieldValue, matchValue)
    [] matchType = "startsWith" -> StartsWith(fieldValue, matchValue)
    [] matchType = "endsWith" -> EndsWith(fieldValue, matchValue)
    [] matchType = "exact" -> fieldValue = matchValue
    [] matchType = "regex" -> ~RegexCompiles(pattern) \/ RegexTest(pattern, fieldValue)
    [] OTHER -> FALSE

\* the switch on matchType, on the lower-cased field and value
MatchText(matchType, fieldValue, matchValue, pattern) ==
  CASE matchType = "contains" -> Includes(fieldValue, matchValue)
    [] matchType = "startsWith" -> StartsWith(fieldValue, matchValue)
    [] matchType = "endsWith" -> EndsWith(fieldValue, matchValue)
    [] matchType = "exact" -> fieldValue = matchValue
    [] matchType = "regex" -> RegexCompiles(pattern) /\ RegexTest(pattern, fieldValue)
    [] OTHER -> FALSE

matchesCondition(transaction, condition) ==
  IF condition.field = "amount"
  THEN /\ ~(IsSome(condition.minAmount) /\ transaction.amount < Get(condition.minAmount))
       /\ ~(IsSome(condition.maxAmount) /\ transaction.amount > Get(condition.maxAmount))
  ELSE MatchText(condition.matchType,
                 ToLower(FieldValue(transaction, condition.field)),
                 ToLower(condition.value), condition.value)

Matches(rule, hits) ==
  IF ~rule.enabled \/ Len(rule.conditions) = 0 THEN FALSE
  ELSE IF rule.conditionLogic = "AND" THEN \A i \in DOMAIN hits : hits[i]
       ELSE \E i \in DOMAIN hits : hits[i]

\* conditions.every / conditions.some of matchesCondition
matchesRule(transaction, rule) ==
  Matches(rule, [i \in 1..Len(rule.conditions) |->
                   matchesCondition(transaction, rule.conditions[i])])

-----------------------------------------------------------------------------
(* applyRule (custom-rules.ts) *)

\* `Split ${index + 1} of ${splits.length}`
AutoMemo(index, n) ==
  <<"S","p","l","i","t"," ">> \o NatToText(index + 1) \o <<" ","o","f"," ">> \o NatToText(n)

RemainingMemo ==
  <<"R","e","m","a","i","n","i","n","g"," ","a","m","o","u","n","t">>

\* the same with the percentage taken of what remains
SplitAmount_OfRemainder(transaction, split, remainingAmount) ==
  IF IsSome(split.fixedAmount) THEN Min(Get(split.fixedAmount), remainingAmount)
  ELSE IF IsSome(split.percentage)
       THEN (remainingAmount * Get(split.percentage)) \div 100
       ELSE remainingAmount

\* the amount one allocation takes, before rounding
SplitAmount(transaction, split, remainingAmount) ==
  IF IsSome(split.fixedAmount) THEN Min(Get(split.fixedAmount), remainingAmount)
  ELSE IF IsSome(split.percentage)
       THEN (transaction.amount * Get(split.percentage)) \div 100
       ELSE remainingAmount

\* the same with the fragment's own amount recorded as the original amount
SplitFragment_OwnAmount(transaction, amount, category, parentId, index, memo) ==
  [transaction EXCEPT !.amount = RoundCents(amount),
                      !.category = category,
                      !.isSplit = Some(TRUE),
                      !.splitParentId = Some(parentId),
                      !.splitIndex = Some(index),
                      !.originalAmount = Some(RoundCents(amount)),
                      !.splitMemo = Some(memo)]

SplitFragment(transaction, amount, category, parentId, index, memo) ==
  [transaction EXCEPT !.amount = RoundCents(amount),
                      !.category = category,
                      !.isSplit = Some(TRUE),
                      !.splitParentId = Some(parentId),
                      !.splitIndex = Some(index),
                      !.originalAmount = Some(transaction.amount),
                      !.splitMemo = Some(memo)]

\* the forEach over rule.action.splits, then the remainder fragment
RECURSIVE SplitWalk(_, _, _, _, _)
RECURSIVE SplitOne(_, _, _, _, _, _)
SplitWalk(transaction, splits, parentId, index, remainingAmount) ==
  IF index >= Len(splits)
  THEN IF remainingAmount > Tolerance
       THEN <<SplitFragment(transaction, remainingAmount, Uncategorized, parentId,
                            Len(splits), RemainingMemo)>>
       ELSE <<>>
  ELSE SplitOne(transaction, splits, parentId, index, remainingAmount,
                SplitAmount(transaction, splits[index + 1], remainingAmount))

\* one iteration of the forEach, splitAmount being what the allocation takes
SplitOne(transaction, splits, parentId, index, remainingAmount, splitAmount) ==
  <<SplitFragment(transaction, splitAmount, splits[index + 1].category, parentId, index,
                  IF Truthy(splits[index + 1].memo) THEN Get(splits[index + 1].memo)
                  ELSE AutoMemo(index, Len(splits)))>>
  \o SplitWalk(transaction, splits, parentId, index + 1, remainingAmount - splitAmount)

\* the action of the rule produces something (the switch pushes to result)
ActionTaken(rule) ==
  CASE rule.action.type = "categorize" -> Truthy(rule.action.category)
    [] rule.action.type = "rename" -> Truthy(rule.action.newName)
    [] rule.action.type = "split" ->
         IsSome(rule.action.splits) /\ Len(Get(rule.action.splits)) > 0
    [] OTHER -> FALSE

\* the branch of applyRule that calls Date.now()
IsSplitApplication(rule) == rule.action.type = "split" /\ ActionTaken(rule)

\* the result pushed when no action was taken
Untouched(transaction) == [transaction EXCEPT !.isSplit = Some(FALSE)]

\* the same with a rename that builds its result without the account
applyRule_NoAccount(transaction, rule, dateNow) ==
  IF ~ActionTaken(rule) THEN <<Untouched(transaction)>>
  ELSE CASE rule.action.type = "categorize" ->
              <<[transaction EXCEPT !.category = Get(rule.action.category),
                                    !.isSplit = Some(FALSE)]>>
         [] rule.action.type = "rename" ->
              <<[transaction EXCEPT !.description = Get(rule.action.newName),
                                    !.account = <<>>,
                                    !.isSplit = Some(FALSE)]>>
         [] rule.action.type = "split" ->
              SplitWalk(transaction, Get(rule.action.splits), dateNow, 0,
                        transaction.amount)

applyRule(transaction, rule, dateNow) ==
  IF ~ActionTaken(rule) THEN <<Untouched(transaction)>>
  ELSE CASE rule.action.type = "categorize" ->
              <<[transaction EXCEPT !.category = Get(rule.action.category),
                                    !.isSplit = Some(FALSE)]>>
         [] rule.action.type = "rename" ->
              <<[transaction EXCEPT !.description = Get(rule.action.newName),
                                    !.isSplit = Some(FALSE)]>>
         [] rule.action.type = "split" ->
              SplitWalk(transaction, Get(rule.action.splits), dateNow, 0,
                        transaction.amount)

-----------------------------------------------------------------------------
(* applyRules, applyRulesToAll (custom-rules.ts) *)

\* .filter(r => r.enabled)
RECURSIVE EnabledRules(_)
EnabledRules(rules) ==
  IF rules = <<>> THEN <<>>
  ELSE IF Head(rules).enabled THEN <<Head(rules)>> \o EnabledRules(Tail(rules))
       ELSE EnabledRules(Tail(rules))

\* one insertion of Array.prototype.sort's stable order on priority
RECURSIVE InsertByPriority(_, _)
InsertByPriority(rule, sorted) ==
  IF sorted = <<>> THEN <<rule>>
  ELSE IF rule.priority < Head(sorted).priority THEN <<rule>> \o sorted
       ELSE <<Head(sorted)>> \o InsertByPriority(rule, Tail(sorted))

\* a faulty sort: the rules are left in stored order
SortByPriority_Stored(rules) == rules

\* .sort((a, b) => a.priority - b.priority): ascending, stable
RECURSIVE SortByPriority(_)
SortByPriority(rules) ==
  IF rules = <<>> THEN <<>>
  ELSE InsertByPriority(rules[Len(rules)],
                        SortByPriority(SubSeq(rules, 1, Len(rules) - 1)))

\* The engine's running state while applyRulesToAll executes: the fragments
\* of the transactions done (all), those pushed for the current one (out),
\* the applyRule calls made (each with the ordinal of the
\* transaction applyRules was called for), the number of Date.now() reads
\* and the clock.  ticks[k] tells whether the clock has advanced by the time
\* of the k-th read; past the end of ticks it always has.
ReadClock(st, ticks) ==
  IF (st.reads + 1) \in DOMAIN ticks /\ ~ticks[st.reads + 1] THEN st.clock
  ELSE st.clock + 1

\* the push of what applyRule returned, with the call recorded
Pushed(st, txn, rule, reads, dateNow, output) ==
  [st EXCEPT !.out = @ \o output,
             !.calls = Append(@, [txnNo |-> st.txnNo, rule |-> rule, input |-> txn,
                                  output |-> output]),
             !.reads = IF reads THEN @ + 1 ELSE @,
             !.clock = dateNow]

Applied(st, txn, rule, reads, dateNow) ==
  Pushed(st, txn, rule, reads, dateNow, applyRule(txn, rule, dateNow))

\* the body of `for (const txn of results)`
StepFragment(st, txn, rule, ticks) ==
  IF matchesRule(txn, rule)
  THEN Applied(st, txn, rule, IsSplitApplication(rule),
               IF IsSplitApplication(rule) THEN ReadClock(st, ticks) ELSE st.clock)
  ELSE [st EXCEPT !.out = Append(@, txn)]

RECURSIVE FragmentLoop(_, _, _, _)
FragmentLoop(st, results, rule, ticks) ==
  IF results = <<>> THEN st
  ELSE FragmentLoop(StepFragment(st, Head(results), rule, ticks), Tail(results), rule, ticks)

\* the body of `for (const rule of rules)`: results = newResults
RECURSIVE RuleLoop(_, _, _)
RuleLoop(st, rules, ticks) ==
  IF rules = <<>> THEN st
  ELSE RuleLoop(FragmentLoop([st EXCEPT !.out = <<>>], st.out, Head(rules), ticks),
                Tail(rules), ticks)

applyRules(st, transaction, stored, ticks) ==
  RuleLoop([st EXCEPT !.out = <<Untouched(transaction)>>, !.txnNo = @ + 1],
           SortByPriority(EnabledRules(stored)), ticks)

\* flatMap: the fragments of one transaction join those of the earlier ones
Collect(st) == [st EXCEPT !.all = @ \o st.out, !.out = <<>>]

RECURSIVE applyRulesToAll(_, _, _, _)
applyRulesToAll(st, transactions, stored, ticks) ==
  IF transactions = <<>> THEN st
  ELSE applyRulesToAll(Collect(applyRules(st, Head(transactions), stored, ticks)),
                       Tail(transactions), stored, ticks)

EngineStart(clock) ==
  [all |-> <<>>, out |-> <<>>, calls |-> <<>>, txnNo |-> 0, reads |-> 0, clock |-> clock]

-----------------------------------------------------------------------------
(* Rule validators (validators.ts).  A result is [errors, warnings]; valid   *)
(* is errors.length === 0.                                                   *)

Blank(o) == ~IsSome(o) \/ Trim(Get(o)) = <<>>

RECURSIVE SumPercentages(_)
SumPercentages(splits) ==
  IF splits = <<>> THEN 0
  ELSE (IF IsSome(Head(splits).percentage) THEN Get(Head(splits).percentage) ELSE 0)
       + SumPercentages(Tail(splits))

\* the messages of one allocation, in the order the forEach pushes them
SplitErrors(split) ==
  (IF Trim(split.category) = <<>> THEN <<"Category is required">> ELSE <<>>)
  \o (IF IsSome(split.percentage)
         /\ (Get(split.percentage) < 0 \/ Get(split.percentage) > 100)
      THEN <<"Percentage must be between 0 and 100">> ELSE <<>>)
  \o (IF IsSome(split.fixedAmount) /\ Get(split.fixedAmount) < 0
      THEN <<"Fixed amount cannot be negative">> ELSE <<>>)

RECURSIVE AllSplitErrors(_)
AllSplitErrors(splits) ==
  IF splits = <<>> THEN <<>> ELSE SplitErrors(Head(splits)) \o AllSplitErrors(Tail(splits))

RECURSIVE RemainderWarnings(_, _)
RemainderWarnings(splits, i) ==
  IF i >= Len(splits) THEN <<>>
  ELSE (IF ~IsSome(splits[i].percentage) /\ ~IsSome(splits[i].fixedAmount)
        THEN <<"will get remainder">> ELSE <<>>)
       \o RemainderWarnings(splits, i + 1)

validateSplitAllocations(splits) ==
  IF Len(splits) < 2
  THEN [errors |-> <<"At least 2 splits are required">>, warnings |-> <<>>]
  ELSE LET totalPercentage == SumPercentages(splits)
       IN [errors |-> AllSplitErrors(splits)
                      \o (IF totalPercentage > 100
                          THEN <<"Split percentages sum above 100">> ELSE <<>>),
           warnings |-> RemainderWarnings(splits, 1)
                        \o (IF totalPercentage < 100
                               /\ \A i \in 1..Len(splits) : IsSome(splits[i].percentage)
                            THEN <<"remainder will be uncategorized">> ELSE <<>>)]

ConditionErrors(cond) ==
  (IF cond.field # "amount" /\ Trim(cond.value) = <<>>
   THEN <<"Value is required for non-amount conditions">> ELSE <<>>)
  \o (IF cond.field = "amount" /\ ~IsSome(cond.minAmount) /\ ~IsSome(cond.maxAmount)
      THEN <<"Amount range (min or max) is required">> ELSE <<>>)
  \o (IF cond.matchType = "regex" /\ ~RegexCompiles(cond.value)
      THEN <<"Invalid regex pattern">> ELSE <<>>)

RECURSIVE AllConditionErrors(_)
AllConditionErrors(conds) ==
  IF conds = <<>> THEN <<>>
  ELSE ConditionErrors(Head(conds)) \o AllConditionErrors(Tail(conds))

ActionErrors(action) ==
  CASE action.type = "categorize" ->
         IF Blank(action.category) THEN <<"Categorize action requires a category">>
         ELSE <<>>
    [] action.type = "rename" ->
         IF Blank(action.newName) THEN <<"Rename action requires a new name">> ELSE <<>>
    [] action.type = "split" ->
         IF ~IsSome(action.splits) \/ Len(Get(action.splits)) < 2
         THEN <<"Split action requires at least 2 splits">>
         ELSE validateSplitAllocations(Get(action.splits)).errors
    [] OTHER -> <<"Invalid action type">>

validateCustomRule(rule) ==
  [errors |->
     (IF Trim(rule.name) = <<>> THEN <<"Rule name is required">> ELSE <<>>)
     \o (IF Len(rule.conditions) = 0 THEN <<"At least one condition is required">>
         ELSE <<>>)
     \o AllConditionErrors(rule.conditions)
     \o ActionErrors(rule.action),
   warnings |->
     IF rule.action.type = "split" /\ IsSome(rule.action.splits)
        /\ Len(Get(rule.action.splits)) >= 2
     THEN validateSplitAllocations(Get(rule.action.splits)).warnings ELSE <<>>]

RuleValid(rule) == validateCustomRule(rule).errors = <<>>

\* validateSplitTransactions: the fragments' amounts against the original
validateSplitTransactions(splits, expectedTotal) ==
  [errors |-> IF Abs(SumAmounts(splits) - expectedTotal) > Tolerance
              THEN <<"Split amounts don't match original">> ELSE <<>>,
   warnings |-> IF \E i, j \in 1..Len(splits) : i # j /\ splits[i].category = splits[j].category
                THEN <<"Multiple splits use the same category">> ELSE <<>>]

-----------------------------------------------------------------------------
(* Numbers and dates as text *)

\* Number.prototype.toFixed(2): nearest cent, a half goes away from zero
ToFixed2(x) ==
  LET cents == (Abs(x) + UnitsPerCent \div 2) \div UnitsPerCent
  IN (IF x < 0 THEN <<"-">> ELSE <<>>)
     \o NatToText(cents \div 100) \o <<".">> \o Pad2(cents % 100)

RECURSIVE DigitPrefixLen(_)
DigitPrefixLen(s) ==
  IF s # <<>> /\ IsDigit(Head(s)) THEN 1 + DigitPrefixLen(Tail(s)) ELSE 0

RECURSIVE TextToNat(_)
TextToNat(digits) ==
  IF digits = <<>> THEN 0
  ELSE TextToNat(SubSeq(digits, 1, Len(digits) - 1)) * 10 + DigitValue(digits[Len(digits)])

\* the first four decimals of a fraction, in units
FractionUnits(digits) ==
  LET d(i) == IF i <= Len(digits) THEN DigitValue(digits[i]) ELSE 0
  IN d(1) * 1000 + d(2) * 100 + d(3) * 10 + d(4)

\* 10 to the power n
RECURSIVE Pow10(_)
Pow10(n) == IF n = 0 THEN 1 ELSE 10 * Pow10(n - 1)

\* the exponent written after the mantissa, e or E with an optional sign and
\* at least one digit; 0 when none is written
ExponentOf(rest) ==
  IF Len(rest) >= 2 /\ rest[1] \in {"e", "E"}
  THEN IF rest[2] \in {"-", "+"}
       THEN (IF rest[2] = "-" THEN -1 ELSE 1)
            * TextToNat(SubSeq(rest, 3, 2 + DigitPrefixLen(SubSeq(rest, 3, Len(rest)))))
       ELSE TextToNat(SubSeq(rest, 2, 1 + DigitPrefixLen(Tail(rest))))
  ELSE 0

\* a mantissa in units times ten to the exponent
Scaled(units, exponent) ==
  IF exponent >= 0 THEN units * Pow10(exponent) ELSE units \div Pow10(-exponent)

\* the value of a number text cut into sign, integer digits and what
\* follows them
FloatOfParts(negative, body, n) ==
  LET after == SubSeq(body, n + 1, Len(body))
      hasPoint == after # <<>> /\ Head(after) = "."
      m == IF hasPoint THEN DigitPrefixLen(Tail(after)) ELSE 0
  IN IF n = 0 /\ m = 0 THEN None
     ELSE Some((IF negative THEN -1 ELSE 1)
               * Scaled(TextToNat(SubSeq(body, 1, n)) * 100 * UnitsPerCent
                        + FractionUnits(IF hasPoint THEN SubSeq(after, 2, m + 1) ELSE <<>>),
                        ExponentOf(SubSeq(after, (IF hasPoint THEN m + 2 ELSE 1),
                                          Len(after)))))

FloatOfBody(negative, body) == FloatOfParts(negative, body, DigitPrefixLen(body))

FloatOfTrimmed(s) ==
  LET signed == s # <<>> /\ Head(s) \in {"-", "+"}
  IN FloatOfBody(signed /\ Head(s) = "-", IF signed THEN Tail(s) ELSE s)

\* parseFloat: optional sign, digits, optional fraction, optional exponent;
\* None is NaN
ParseFloat(text) == FloatOfTrimmed(TrimLeft(text))

\* isNaN(num) ? 0 : num
OrZero(num) == IF IsSome(num) THEN Get(num) ELSE 0

\* new Date(dateStr) for the date strings of the model: YYYY-MM-DD is a
\* date, any other text is an Invalid Date (None)
ParseDate(text) ==
  IF /\ Len(text) = 10
     /\ \A i \in {1, 2, 3, 4, 6, 7, 9, 10} : IsDigit(text[i])
     /\ text[5] = "-" /\ text[8] = "-"
     /\ TextToNat(SubSeq(text, 6, 7)) \in 1..12
     /\ TextToNat(SubSeq(text, 9, 10)) \in 1..31
  THEN Some([year |-> TextToNat(SubSeq(text, 1, 4)),
             month |-> TextToNat(SubSeq(text, 6, 7)),
             day |-> TextToNat(SubSeq(text, 9, 10))])
  ELSE None

\* Date.prototype.getTime, in days; None is NaN
DayNumber(d) ==
  IF IsSome(d) THEN Some((Get(d).year * 12 + Get(d).month) * 31 + Get(d).day) ELSE None
GetTime(text) == DayNumber(ParseDate(text))

-----------------------------------------------------------------------------
(* IIF exporter (iif-exporter.ts) *)

NameMaxLen == 50
EscapeMaxLen == 100

DEFAULT_OPTIONS ==
  [bankAccountName |-> <<"C","h","e","c","k","i","n","g">>,
   defaultExpenseAccount |-> <<"U","n","c","a","t","e","g","o","r","i","z","e","d",
                               " ","E","x","p","e","n","s","e">>,
   defaultIncomeAccount |-> <<"O","t","h","e","r"," ","I","n","c","o","m","e">>,
   includeMemo |-> TRUE,
   categoryMapping |-> <<>>]

\* category, QuickBooks account
DEFAULT_CATEGORY_MAPPING == <<
    <<<<"G","r","o","c","e","r","i","e","s">>,
      <<"G","r","o","c","e","r","i","e","s">>>>,
    <<<<"R","e","s","t","a","u","r","a","n","t","s"," ","a","n","d"," ","D","i","n","i","n","g">>,
      <<"M","e","a","l","s"," ","&"," ","E","n","t","e","r","t","a","i","n","m","e","n","t">>>>,
    <<<<"E","n","t","e","r","t","a","i","n","m","e","n","t">>,
      <<"E","n","t","e","r","t","a","i","n","m","e","n","t">>>>,
    <<<<"G","a","s">>,
      <<"A","u","t","o",":","F","u","e","l">>>>,
    <<<<"T","r","a","v","e","l">>,
      <<"T","r","a","v","e","l">>>>,
    <<<<"U","t","i","l","i","t","i","e","s">>,
      <<"U","t","i","l","i","t","i","e","s">>>>,
    <<<<"C","a","b","l","e">>,
      <<"U","t","i","l","i","t","i","e","s",":","C","a","b","l","e">>>>,
    <<<<"P","h","o","n","e">>,
      <<"U","t","i","l","i","t","i","e","s",":","T","e","l","e","p","h","o","n","e">>>>,
    <<<<"I","n","s","u","r","a","n","c","e">>,
      <<"I","n","s","u","r","a","n","c","e">>>>,
    <<<<"H","e","a","l","t","h","c","a","r","e">>,
      <<"M","e","d","i","c","a","l">>>>,
    <<<<"S","u","b","s","c","r","i","p","t","i","o","n","s"," ","a","n","d"," ","R","e","n","e","w","a","l","s">>,
      <<"S","u","b","s","c","r","i","p","t","i","o","n","s">>>>,
    <<<<"S","e","r","v","i","c","e","s"," ","a","n","d"," ","S","u","p","p","l","i","e","s">>,
      <<"O","f","f","i","c","e"," ","S","u","p","p","l","i","e","s">>>>,
    <<<<"S","o","f","t","w","a","r","e"," ","&"," ","S","e","r","v","i","c","e","s">>,
      <<"C","o","m","p","u","t","e","r"," ","&"," ","I","n","t","e","r","n","e","t">>>>,
    <<<<"G","e","n","e","r","a","l"," ","M","e","r","c","h","a","n","d","i","s","e">>,
      <<"S","u","p","p","l","i","e","s">>>>,
    <<<<"C","l","o","t","h","i","n","g">>,
      <<"C","l","o","t","h","i","n","g">>>>,
    <<<<"P","e","r","s","o","n","a","l"," ","C","a","r","e">>,
      <<"P","e","r","s","o","n","a","l"," ","C","a","r","e">>>>,
    <<<<"H","o","m","e"," ","I","m","p","r","o","v","e","m","e","n","t">>,
      <<"R","e","p","a","i","r","s"," ","&"," ","M","a","i","n","t","e","n","a","n","c","e">>>>,
    <<<<"L","o","a","n","s">>,
      <<"L","o","a","n"," ","I","n","t","e","r","e","s","t">>>>,
    <<<<"T","r","a","n","s","f","e","r","s">>,
      <<"T","r","a","n","s","f","e","r">>>>,
    <<<<"A","T","M">>,
      <<"C","a","s","h">>>>,
    <<<<"F","e","e","s">>,
      <<"B","a","n","k"," ","S","e","r","v","i","c","e"," ","C","h","a","r","g","e","s">>>>,
    <<<<"S","a","l","a","r","y">>,
      <<"P","a","y","r","o","l","l"," ","I","n","c","o","m","e">>>>,
    <<<<"O","t","h","e","r"," ","I","n","c","o","m","e">>,
      <<"O","t","h","e","r"," ","I","n","c","o","m","e">>>>,
    <<<<"I","n","t","e","r","e","s","t">>,
      <<"I","n","t","e","r","e","s","t"," ","I","n","c","o","m","e">>>>,
    <<<<"R","e","f","u","n","d">>,
      <<"O","t","h","e","r"," ","I","n","c","o","m","e">>>>,
    <<<<"U","n","c","a","t","e","g","o","r","i","z","e","d">>,
      <<"U","n","c","a","t","e","g","o","r","i","z","e","d"," ","E","x","p","e","n","s","e">>>>>>

\* the value a mapping holds for category, None when it holds none
RECURSIVE Lookup(_, _)
Lookup(mapping, category) ==
  IF mapping = <<>> THEN None
  ELSE IF Head(mapping)[1] = category THEN Some(Head(mapping)[2])
       ELSE Lookup(Tail(mapping), category)

\* MM/DD/YYYY of a parsed date; the getters of an Invalid Date give NaN
FormatDate(date) ==
  IF IsSome(date)
  THEN Pad2(Get(date).month) \o <<"/">> \o Pad2(Get(date).day) \o <<"/">>
       \o NatToText(Get(date).year)
  ELSE <<"N","a","N","/","N","a","N","/","N","a","N">>
formatIIFDate(dateStr) == FormatDate(ParseDate(dateStr))

\* .replace(/\t/g, ' ')
ReplaceTabs(str) == [i \in 1..Len(str) |-> IF str[i] = "\t" THEN " " ELSE str[i]]

\* .replace(/\r?\n/g, ' ')
RECURSIVE ReplaceNewlines(_)
ReplaceNewlines(str) ==
  IF str = <<>> THEN <<>>
  ELSE IF Head(str) = "\n" THEN <<" ">> \o ReplaceNewlines(Tail(str))
  ELSE IF Head(str) = "\r" /\ Len(str) >= 2 /\ str[2] = "\n"
       THEN <<" ">> \o ReplaceNewlines(Tail(Tail(str)))
  ELSE <<Head(str)>> \o ReplaceNewlines(Tail(str))

\* String.prototype.substring(0, n)
Substring0(str, n) == SubSeq(str, 1, Min(n, Len(str)))

escapeIIF(str) == Substring0(ReplaceNewlines(ReplaceTabs(str)), EscapeMaxLen)

FirstTruthy(custom, default, fallback) ==
  IF Truthy(custom) THEN Get(custom)
  ELSE IF Truthy(default) THEN Get(default)
  ELSE fallback
getQBAccount(category, type, options) ==
  FirstTruthy(Lookup(options.categoryMapping, category),
              Lookup(DEFAULT_CATEGORY_MAPPING, category),
              IF type = "income" THEN options.defaultIncomeAccount
              ELSE options.defaultExpenseAccount)

isSplitTransaction(txn) == txn.isSplit = Some(TRUE)

\* the split branch of groupSplitTransactions' loop
InSplitGroup(txn) == isSplitTransaction(txn) /\ IsSome(txn.splitParentId)

RECURSIVE RegularOf(_)
RegularOf(transactions) ==
  IF transactions = <<>> THEN <<>>
  ELSE IF InSplitGroup(Head(transactions)) THEN RegularOf(Tail(transactions))
       ELSE <<Head(transactions)>> \o RegularOf(Tail(transactions))

\* keys with one entry per fragment: a parent id is repeated for each of
\* its fragments
RECURSIVE GroupKeys_PerFragment(_, _)
GroupKeys_PerFragment(transactions, seen) ==
  IF transactions = <<>> THEN <<>>
  ELSE (IF InSplitGroup(Head(transactions))
        THEN <<Get(Head(transactions).splitParentId)>> ELSE <<>>)
       \o GroupKeys_PerFragment(Tail(transactions), seen)

\* the keys of splitGroups, in insertion order
RECURSIVE GroupKeys(_, _)
GroupKeys(transactions, seen) ==
  IF transactions = <<>> THEN <<>>
  ELSE LET txn == Head(transactions)
       IN IF InSplitGroup(txn) /\ Get(txn.splitParentId) \notin seen
          THEN <<Get(txn.splitParentId)>>
               \o GroupKeys(Tail(transactions), seen \cup {Get(txn.splitParentId)})
          ELSE GroupKeys(Tail(transactions), seen)

\* splitGroups.get(key)
RECURSIVE GroupOf(_, _)
GroupOf(transactions, key) ==
  IF transactions = <<>> THEN <<>>
  ELSE LET txn == Head(transactions)
       IN IF InSplitGroup(txn) /\ Get(txn.splitParentId) = key
          THEN <<txn>> \o GroupOf(Tail(transactions), key)
          ELSE GroupOf(Tail(transactions), key)

GroupsOf(transactions, keys) ==
  [regular |-> RegularOf(transactions),
   splitGroups |-> [i \in 1..Len(keys) |-> GroupOf(transactions, keys[i])]]

groupSplitTransactions(transactions) ==
  GroupsOf(transactions, GroupKeys(transactions, {}))

IIF_HEADER == <<
  Join(<<<<"!","TRNS">>, <<"TRNSID">>, <<"TRNSTYPE">>, <<"DATE">>, <<"ACCNT">>, <<"NAME">>,
         <<"AMOUNT">>, <<"DOCNUM">>, <<"MEMO">>, <<"CLEAR">>, <<"TOPRINT">>>>, <<"\t">>),
  Join(<<<<"!","SPL">>, <<"SPLID">>, <<"TRNSTYPE">>, <<"DATE">>, <<"ACCNT">>, <<"NAME">>,
         <<"AMOUNT">>, <<"DOCNUM">>, <<"MEMO">>, <<"CLEAR">>, <<"QNTY">>, <<"REIMBEXP">>>>,
       <<"\t">>),
  <<"!","ENDTRNS">> >>

TrnsType(type) == IF type = "income" THEN <<"DEPOSIT">> ELSE <<"CHECK">>

TrnsLine(trnsId, trnsType, date, account, name, amount, memo) ==
  Join(<<<<"TRNS">>, NatToText(trnsId), trnsType, date, account, name, ToFixed2(amount),
         <<>>, memo, <<"N">>, <<"N">>>>, <<"\t">>)

SplLine(trnsId, trnsType, date, account, name, amount, memo) ==
  Join(<<<<"SPL">>, NatToText(trnsId), trnsType, date, account, name, ToFixed2(amount),
         <<>>, memo, <<"N">>, <<>>, <<>>>>, <<"\t">>)

\* the lines of a regular transaction with the offsetting line given the
\* amount of the TRNS line instead of its negation
RegularLines_SameSign(trnsId, trnsType, date, bankAccount, offsetAccount, name, amount, memo) ==
  <<TrnsLine(trnsId, trnsType, date, bankAccount, name, amount, memo),
    SplLine(trnsId, trnsType, date, offsetAccount, name, amount, memo),
    <<"ENDTRNS">>>>

\* the three lines pushed for one regular (non-split) transaction
RegularLines(trnsId, trnsType, date, bankAccount, offsetAccount, name, amount, memo) ==
  <<TrnsLine(trnsId, trnsType, date, bankAccount, name, amount, memo),
    SplLine(trnsId, trnsType, date, offsetAccount, name, -amount, memo),
    <<"ENDTRNS">>>>

\* the body of `for (const txn of regular)`
RegularBlock(txn, trnsId, opts) ==
  RegularLines(trnsId, TrnsType(txn.type), formatIIFDate(txn.date), opts.bankAccountName,
               getQBAccount(txn.category, txn.type, opts),
               escapeIIF(Substring0(txn.description, NameMaxLen)),
               IF txn.type = "expense" THEN -txn.amount ELSE txn.amount,
               IF opts.includeMemo THEN escapeIIF(txn.description) ELSE <<>>)

\* the SPL lines of a split group: `for (const split of splits)`
RECURSIVE SplitLines_(_, _, _, _, _, _, _)
SplitLines_(splits, trnsId, trnsType, date, name, memo, opts) ==
  IF splits = <<>> THEN <<>>
  ELSE <<SplLine(trnsId, trnsType, date,
                 getQBAccount(Head(splits).category, Head(splits).type, opts), name,
                 IF Head(splits).type = "expense" THEN Head(splits).amount
                 ELSE -Head(splits).amount,
                 escapeIIF(IF Truthy(Head(splits).splitMemo) THEN Get(Head(splits).splitMemo)
                           ELSE memo))>>
       \o SplitLines_(Tail(splits), trnsId, trnsType, date, name, memo, opts)

\* firstSplit.originalAmount || splits.reduce(sum)
OriginalAmount(splits) ==
  IF IsSome(splits[1].originalAmount) /\ Get(splits[1].originalAmount) # 0
  THEN Get(splits[1].originalAmount) ELSE SumAmounts(splits)

\* the lines pushed for one split group
SplitGroupLines(splits, trnsId, trnsType, date, bankAccount, name, amount, memo, opts) ==
  <<TrnsLine(trnsId, trnsType, date, bankAccount, name, amount, memo)>>
  \o SplitLines_(splits, trnsId, trnsType, date, name, memo, opts)
  \o <<<<"ENDTRNS">>>>

\* the body of `for (const [, splits] of splitGroups)`
SplitBlock(splits, trnsId, opts) ==
  SplitGroupLines(splits, trnsId, TrnsType(splits[1].type), formatIIFDate(splits[1].date),
                  opts.bankAccountName,
                  escapeIIF(Substring0(splits[1].description, NameMaxLen)),
                  IF splits[1].type = "expense" THEN -OriginalAmount(splits)
                  ELSE OriginalAmount(splits),
                  IF opts.includeMemo THEN escapeIIF(splits[1].description) ELSE <<>>,
                  opts)

RECURSIVE RegularBlocks(_, _, _)
RegularBlocks(regular, trnsId, opts) ==
  IF regular = <<>> THEN <<>>
  ELSE RegularBlock(Head(regular), trnsId + 1, opts)
       \o RegularBlocks(Tail(regular), trnsId + 1, opts)

RECURSIVE SplitBlocks(_, _, _)
SplitBlocks(groups, trnsId, opts) ==
  IF groups = <<>> THEN <<>>
  ELSE SplitBlock(Head(groups), trnsId + 1, opts)
       \o SplitBlocks(Tail(groups), trnsId + 1, opts)

\* the header, the regular blocks, then the split groups, trnsId running on
GroupedLines(g, opts) ==
  IIF_HEADER \o RegularBlocks(g.regular, 0, opts)
  \o SplitBlocks(g.splitGroups, Len(g.regular), opts)

\* the lines generateIIF pushes
IIFLines(transactions, opts) == GroupedLines(groupSplitTransactions(transactions), opts)

\* lines.join('\r\n')
generateIIF(transactions, opts) == Join(IIFLines(transactions, opts), <<"\r","\n">>)

-----------------------------------------------------------------------------
(* validateIIF (validators.ts) *)

\* the loop variables of validateIIF, with the errors, warnings and stats
IIFStart ==
  [inTransaction |-> FALSE, currentTrnsAmount |-> 0, currentSplitsTotal |-> 0,
   currentTrnsId |-> <<>>, errors |-> <<>>, warnings |-> <<>>,
   transactionCount |-> 0, splitCount |-> 0, totalDebit |-> 0, totalCredit |-> 0]

\* parseFloat(parts[6] || '0') || 0
PartAmount(parts) ==
  OrZero(ParseFloat(IF Len(parts) >= 7 /\ parts[7] # <<>> THEN parts[7] ELSE <<"0">>))

\* a TRNS branch that keeps the running total of the SPL rows seen before it
TrnsRow_KeepTotal(st, parts, amount, i) ==
  [st EXCEPT
     !.errors = IF st.inTransaction
                THEN Append(@, [kind |-> "TRNS without ENDTRNS", line |-> i + 1])
                ELSE @,
     !.inTransaction = TRUE,
     !.transactionCount = @ + 1,
     !.currentTrnsId = IF Len(parts) >= 2 THEN parts[2] ELSE <<>>,
     !.currentTrnsAmount = amount,
     !.currentSplitsTotal = @,
     !.totalCredit = IF amount >= 0 THEN @ + amount ELSE @,
     !.totalDebit = IF amount >= 0 THEN @ ELSE @ + Abs(amount)]

\* the TRNS branch, amount being the amount of the row
TrnsRow(st, parts, amount, i) ==
  [st EXCEPT
     !.errors = IF st.inTransaction
                THEN Append(@, [kind |-> "TRNS without ENDTRNS", line |-> i + 1])
                ELSE @,
     !.inTransaction = TRUE,
     !.transactionCount = @ + 1,
     !.currentTrnsId = IF Len(parts) >= 2 THEN parts[2] ELSE <<>>,
     !.currentTrnsAmount = amount,
     !.currentSplitsTotal = 0,
     !.totalCredit = IF amount >= 0 THEN @ + amount ELSE @,
     !.totalDebit = IF amount >= 0 THEN @ ELSE @ + Abs(amount)]

\* an SPL branch that counts only the rows seen inside a transaction
SplRow_CountInside(st, parts, i) ==
  [st EXCEPT
     !.errors = IF ~st.inTransaction
                THEN Append(@, [kind |-> "SPL without TRNS", line |-> i + 1])
                ELSE @,
     !.splitCount = IF st.inTransaction THEN @ + 1 ELSE @,
     !.currentSplitsTotal = @ + PartAmount(parts)]

\* the SPL branch
SplRow(st, parts, i) ==
  [st EXCEPT
     !.errors = IF ~st.inTransaction
                THEN Append(@, [kind |-> "SPL without TRNS", line |-> i + 1])
                ELSE @,
     !.splitCount = @ + 1,
     !.currentSplitsTotal = @ + PartAmount(parts)]

\* an ENDTRNS branch that closes the transaction and records nothing
EndTrnsRow_Silent(st, i) == [st EXCEPT !.inTransaction = FALSE]

\* the ENDTRNS branch
EndTrnsRow(st, i) ==
  [st EXCEPT
     !.errors =
        (IF ~st.inTransaction
         THEN Append(@, [kind |-> "ENDTRNS without TRNS", line |-> i + 1])
         ELSE @)
        \o (IF Abs(st.currentTrnsAmount + st.currentSplitsTotal) > Tolerance
            THEN <<[kind |-> "should equal 0", id |-> st.currentTrnsId,
                    trns |-> st.currentTrnsAmount, spl |-> st.currentSplitsTotal]>>
            ELSE <<>>),
     !.inTransaction = FALSE]

\* the branches on parts[0] of a line that is neither empty nor a header
IIFRow(st, parts, i) ==
  CASE parts[1] = <<"TRNS">> -> TrnsRow(st, parts, PartAmount(parts), i)
    [] parts[1] = <<"SPL">> -> SplRow(st, parts, i)
    [] parts[1] = <<"ENDTRNS">> -> EndTrnsRow(st, i)
    [] parts[1] = <<"ACCNT">> -> st
    [] OTHER -> IF parts[1] # <<>>
                THEN [st EXCEPT !.warnings =
                        Append(@, [kind |-> "Unknown row type", line |-> i + 1])]
                ELSE st

IIFLine(st, line, i) ==
  IF line = <<>> \/ Head(line) = "!" THEN st ELSE IIFRow(st, SplitTab(line), i)

\* one iteration of the loop over lines; i is the 0-based line index
IIFStep(st, rawLine, i) == IIFLine(st, Trim(rawLine), i)

RECURSIVE IIFLoop(_, _, _)
IIFLoop(st, lines, i) ==
  IF lines = <<>> THEN st
  ELSE IIFLoop(IIFStep(st, Head(lines), i), Tail(lines), i + 1)

\* the header check and the loop over lines
IIFLines_(lines) ==
  IIFLoop([IIFStart EXCEPT
             !.errors = IF \E k \in 1..Len(lines) : StartsWith(lines[k], <<"!","TRNS">>)
                        THEN <<>>
                        ELSE <<[kind |-> "Missing !TRNS header"]>>],
          lines, 0)

\* the state of validateIIF when its loop over the lines of content ends
IIFLoopEnd(text) == IIFLines_(SplitLines(text))

\* the checks after the loop and the returned result
IIFResult(st) ==
  LET errors == IF st.inTransaction
                THEN Append(st.errors, [kind |-> "File ends without ENDTRNS"])
                ELSE st.errors
  IN [valid |-> errors = <<>>,
      errors |-> errors,
      warnings |-> IF st.transactionCount = 0
                   THEN Append(st.warnings, [kind |-> "No transactions found"])
                   ELSE st.warnings,
      stats |-> [transactionCount |-> st.transactionCount, splitCount |-> st.splitCount,
                 totalDebit |-> st.totalDebit, totalCredit |-> st.totalCredit]]

validateIIF(text) == IIFResult(IIFLoopEnd(text))

-----------------------------------------------------------------------------
(* CSV validators (validators.ts).  A row maps header names to cell text. *)

\* r[col]: None when the row has no such column
Cell(r, col) == IF col \in DOMAIN r THEN Some(r[col]) ELSE None

\* .replace(/[$,()]/g, '')
RECURSIVE StripCurrency(_)
StripCurrency(str) ==
  IF str = <<>> THEN <<>>
  ELSE IF Head(str) \in {"$", ",", "(", ")"} THEN StripCurrency(Tail(str))
       ELSE <<Head(str)>> \o StripCurrency(Tail(str))

parseNumeric(val) ==
  IF ~IsSome(val) \/ Get(val) = <<>> THEN 0
  ELSE OrZero(ParseFloat(StripCurrency(Get(val))))

maxErrors == 5

UnknownDate == <<"u","n","k","n","o","w","n">>
UnknownDescription == <<"U","n","k","n","o","w","n">>

\* the body of the loop for index i, whose expected and actual balances
\* are given
BalanceStep(st, filename, i, date, expectedBalance, currBalance) ==
  IF Abs(expectedBalance - currBalance) > Tolerance
  THEN [errorCount |-> st.errorCount + 1,
        errors |-> IF st.errorCount + 1 <= maxErrors
                   THEN Append(st.errors,
                          [file |-> filename, row |-> i + 2, date |-> date,
                           kind |-> "Balance mismatch",
                           expected |-> expectedBalance, actual |-> currBalance])
                   ELSE st.errors]
  ELSE st

\* the loop of validateBalanceConsistency from index i down to 0, over the
\* values parsed upfront; st holds errors and errorCount
RECURSIVE BalanceLoop(_, _, _, _, _, _, _)
BalanceLoop(st, filename, deposits, withdrawals, balances, dates, i) ==
  IF i < 0 THEN st
  ELSE BalanceLoop(
         BalanceStep(st, filename, i, dates[i + 1],
                     balances[i + 2] - withdrawals[i + 1] + deposits[i + 1],
                     balances[i + 1]),
         filename, deposits, withdrawals, balances, dates, i - 1)

\* a result without the summary entry
BalanceResult_NoSummary(st, filename) == st.errors

\* the summary entry after the loop
BalanceResult(st, filename) ==
  IF st.errorCount > maxErrors
  THEN Append(st.errors, [file |-> filename, kind |-> "more balance errors",
                          count |-> st.errorCount - maxErrors])
  ELSE st.errors

\* r[columns.date] || 'unknown'
DateOrUnknown(cell) == IF Truthy(cell) THEN Get(cell) ELSE UnknownDate

validateBalanceConsistency(rws, filename, columns) ==
  IF Len(rws) < 2 THEN <<>>
  ELSE BalanceResult(
         BalanceLoop([errorCount |-> 0, errors |-> <<>>], filename,
                     [r \in 1..Len(rws) |-> parseNumeric(Cell(rws[r], columns.deposit))],
                     [r \in 1..Len(rws) |-> parseNumeric(Cell(rws[r], columns.withdrawal))],
                     [r \in 1..Len(rws) |-> parseNumeric(Cell(rws[r], columns.balance))],
                     [r \in 1..Len(rws) |-> DateOrUnknown(Cell(rws[r], columns.date))],
                     Len(rws) - 2),
         filename)

-----------------------------------------------------------------------------
(* validateCSVParseable, validateRequiredColumns, validateParsedCSV          *)
(* (validators.ts).  A canonical column is named by a string.                *)

validateCSVParseable(rws, filename) ==
  IF rws = <<>> THEN <<[file |-> filename, kind |-> "CSV file is empty"]>>
  ELSE IF DOMAIN rws[1] = {} THEN <<[file |-> filename, kind |-> "CSV has no columns"]>>
  ELSE <<>>

\* the table of getColumnVariations
ColumnVariations ==
  [date |->
     <<<<"d","a","t","e">>,
       <<"t","r","a","n","s"," ","d","a","t","e">>,
       <<"t","r","a","n","s","a","c","t","i","o","n"," ","d","a","t","e">>,
       <<"p","o","s","t","e","d"," ","d","a","t","e">>>>,
   description |->
     <<<<"d","e","s","c","r","i","p","t","i","o","n">>,
       <<"m","e","m","o">>,
       <<"d","e","t","a","i","l","s">>,
       <<"p","a","y","e","e">>>>,
   deposit |->
     <<<<"d","e","p","o","s","i","t">>,
       <<"d","e","p","o","s","i","t","s">>,
       <<"c","r","e","d","i","t">>,
       <<"c","r","e","d","i","t","s">>,
       <<"a","m","o","u","n","t"," ","c","r","e","d","i","t">>>>,
   withdrawal |->
     <<<<"w","i","t","h","d","r","a","w","a","l">>,
       <<"w","i","t","h","d","r","a","w","a","l","s">>,
       <<"d","e","b","i","t">>,
       <<"d","e","b","i","t","s">>,
       <<"a","m","o","u","n","t"," ","d","e","b","i","t">>>>,
   balance |->
     <<<<"b","a","l","a","n","c","e">>,
       <<"r","u","n","n","i","n","g"," ","b","a","l","a","n","c","e">>,
       <<"a","v","a","i","l","a","b","l","e"," ","b","a","l","a","n","c","e">>>>,
   category |->
     <<<<"c","a","t","e","g","o","r","y">>,
       <<"t","y","p","e">>,
       <<"t","r","a","n","s","a","c","t","i","o","n"," ","t","y","p","e">>>>]

\* variations[col] || [col], for the canonical columns of the table
getColumnVariations(col) == ColumnVariations[col]

\* lowerHeaders.includes(v) for some variation v
SomeVariation(lowerHeaders, variations) ==
  \E k \in 1..Len(variations), i \in 1..Len(lowerHeaders) : lowerHeaders[i] = variations[k]

\* required.filter(col => no variation is among the lower-cased headers)
RECURSIVE MissingColumns(_, _)
MissingColumns(lowerHeaders, required) ==
  IF required = <<>> THEN <<>>
  ELSE (IF SomeVariation(lowerHeaders, getColumnVariations(Head(required)))
        THEN <<>> ELSE <<Head(required)>>)
       \o MissingColumns(lowerHeaders, Tail(required))

\* the error for a list of missing columns
MissingError(missing, filename) ==
  IF missing # <<>>
  THEN <<[file |-> filename, kind |-> "Missing required columns", missing |-> missing]>>
  ELSE <<>>

validateRequiredColumns(headers, filename, required) ==
  MissingError(MissingColumns([i \in 1..Len(headers) |-> ToLower(headers[i])], required),
               filename)

\* the default of validateRequiredColumns' parameter `required`
DefaultRequired == <<"date", "description", "deposit", "withdrawal", "balance">>

\* headers.find((_, i) => names.includes(lowerHeaders[i])): None when no
\* header is found
HeaderAmong(headers, names) ==
  IF \E i \in 1..Len(headers) : ToLower(headers[i]) \in names
  THEN Some(headers[CHOOSE i \in 1..Len(headers) :
                      /\ ToLower(headers[i]) \in names
                      /\ \A j \in 1..(i - 1) : ToLower(headers[j]) \notin names])
  ELSE None

\* step 3 of validateParsedCSV: the balance errors and the warnings, the
\* four columns being given
BalanceCheck(rws, filename, validateBalance, depositCol, withdrawalCol, balanceCol, dateCol) ==
  IF validateBalance = Some(FALSE) THEN [errors |-> <<>>, warnings |-> <<>>]
  ELSE IF Truthy(depositCol) /\ Truthy(withdrawalCol) /\ Truthy(balanceCol) /\ Truthy(dateCol)
  THEN [errors |-> validateBalanceConsistency(rws, filename,
                     [deposit |-> Get(depositCol), withdrawal |-> Get(withdrawalCol),
                      balance |-> Get(balanceCol), date |-> Get(dateCol)]),
        warnings |-> <<>>]
  ELSE [errors |-> <<>>,
        warnings |-> IF validateBalance = Some(TRUE)
                     THEN <<"Could not validate balances: missing required columns">>
                     ELSE <<>>]

\* steps 2 and 3, and the result
Validated(columnErrors, balance) ==
  [valid |-> columnErrors \o balance.errors = <<>>,
   errors |-> columnErrors \o balance.errors,
   warnings |-> balance.warnings]

\* validateParsedCSV once the basic parsing check has run
AfterParseCheck(parseErrors, rws, headers, filename, options) ==
  IF parseErrors # <<>> THEN [valid |-> FALSE, errors |-> parseErrors, warnings |-> <<>>]
  ELSE Validated(
         IF IsSome(options.requiredColumns)
         THEN validateRequiredColumns(headers, filename, Get(options.requiredColumns))
         ELSE <<>>,
         BalanceCheck(rws, filename, options.validateBalance,
                      HeaderAmong(headers, {<<"d","e","p","o","s","i","t">>, <<"d","e","p","o","s","i","t","s">>, <<"c","r","e","d","i","t">>}),
                      HeaderAmong(headers, {<<"w","i","t","h","d","r","a","w","a","l">>,
                                            <<"w","i","t","h","d","r","a","w","a","l","s">>,
                                            <<"d","e","b","i","t">>}),
                      HeaderAmong(headers, {<<"b","a","l","a","n","c","e">>, <<"r","u","n","n","i","n","g"," ","b","a","l","a","n","c","e">>}),
                      HeaderAmong(headers, {<<"d","a","t","e">>,
                                            <<"t","r","a","n","s"," ","d","a","t","e">>,
                                            <<"t","r","a","n","s","a","c","t","i","o","n"," ","d","a","t","e">>})))

\* options: validateBalance and requiredColumns are optional
validateParsedCSV(rws, headers, filename, options) ==
  AfterParseCheck(validateCSVParseable(rws, filename), rws, headers, filename, options)

-----------------------------------------------------------------------------
(* Categorizer (categorizer.ts).  A pattern is a literal, matched anywhere   *)
(* in the description without regard to case; the patterns of the source     *)
(* that use other regular-expression syntax are left out of the table.       *)

CATEGORY_RULES == <<
  [category |-> <<"S","a","l","a","r","y">>,
   patterns |-> <<
     <<"p","a","y","r","o","l","l">>,
     <<"s","a","l","a","r","y">>,
     <<"d","i","r","e","c","t"," ","d","e","p","o","s","i","t">>,
     <<"e","m","p","l","o","y","e","r">>>>],
  [category |-> <<"B","o","n","u","s">>,
   patterns |-> <<
     <<"b","o","n","u","s">>,
     <<"i","n","c","e","n","t","i","v","e">>>>],
  [category |-> <<"I","n","t","e","r","e","s","t">>,
   patterns |-> <<
     <<"a","p","y">>>>],
  [category |-> <<"D","i","v","i","d","e","n","d","s">>,
   patterns |-> <<
     <<"d","i","v","i","d","e","n","d">>>>],
  [category |-> <<"R","e","f","u","n","d","s">>,
   patterns |-> <<
     <<"r","e","f","u","n","d">>,
     <<"r","e","b","a","t","e">>,
     <<"c","a","s","h","b","a","c","k">>>>],
  [category |-> <<"G","r","o","c","e","r","i","e","s">>,
   patterns |-> <<
     <<"t","r","a","d","e","r"," ","j","o","e">>,
     <<"w","h","o","l","e"," ","f","o","o","d","s">>,
     <<"s","a","f","e","w","a","y">>,
     <<"k","r","o","g","e","r">>,
     <<"p","u","b","l","i","x">>,
     <<"a","l","b","e","r","t","s","o","n","s">>,
     <<"f","o","o","d"," ","c","o","o","p">>,
     <<"g","r","o","c","e","r","y">>,
     <<"c","o","s","t","c","o">>,
     <<"a","l","d","i">>,
     <<"w","e","g","m","a","n","s">>,
     <<"s","p","r","o","u","t","s">>,
     <<"f","r","e","s","h"," ","m","a","r","k","e","t">>,
     <<"f","o","o","d"," ","m","a","r","t">>,
     <<"s","u","p","e","r","m","a","r","k","e","t">>>>],
  [category |-> <<"R","e","s","t","a","u","r","a","n","t","s"," ","&"," ","D","i","n","i","n","g">>,
   patterns |-> <<
     <<"r","e","s","t","a","u","r","a","n","t">>,
     <<"d","o","o","r","d","a","s","h">>,
     <<"g","r","u","b","h","u","b">>,
     <<"p","o","s","t","m","a","t","e","s">>,
     <<"c","h","i","p","o","t","l","e">>,
     <<"m","c","d","o","n","a","l","d">>,
     <<"s","t","a","r","b","u","c","k","s">>,
     <<"d","u","n","k","i","n">>,
     <<"s","u","b","w","a","y">>,
     <<"p","i","z","z","a">>,
     <<"b","u","r","g","e","r">>,
     <<"c","a","f","e">>,
     <<"c","o","f","f","e","e">>,
     <<"d","i","n","e","r">>,
     <<"g","r","i","l","l">>,
     <<"s","w","e","e","t","g","r","e","e","n">>,
     <<"p","a","n","e","r","a">>,
     <<"w","e","n","d","y">>,
     <<"t","a","c","o"," ","b","e","l","l">>,
     <<"k","f","c">>,
     <<"p","o","p","e","y","e","s">>,
     <<"f","i","v","e"," ","g","u","y","s">>,
     <<"s","h","a","k","e"," ","s","h","a","c","k">>,
     <<"p","a","n","d","a"," ","e","x","p","r","e","s","s">>>>],
  [category |-> <<"S","u","b","s","c","r","i","p","t","i","o","n","s">>,
   patterns |-> <<
     <<"n","e","t","f","l","i","x">>,
     <<"s","p","o","t","i","f","y">>,
     <<"h","u","l","u">>,
     <<"a","m","a","z","o","n"," ","p","r","i","m","e">>,
     <<"y","o","u","t","u","b","e">>,
     <<"p","a","r","a","m","o","u","n","t">>,
     <<"p","e","a","c","o","c","k">>,
     <<"a","u","d","i","b","l","e">>,
     <<"k","i","n","d","l","e">>,
     <<"n","y","t","i","m","e","s">>,
     <<"s","u","b","s","c","r","i","p","t","i","o","n">>,
     <<"m","e","m","b","e","r","s","h","i","p">>,
     <<"m","o","n","t","h","l","y"," ","f","e","e">>>>],
  [category |-> <<"S","o","f","t","w","a","r","e"," ","&"," ","S","e","r","v","i","c","e","s">>,
   patterns |-> <<
     <<"o","p","e","n","a","i">>,
     <<"a","n","t","h","r","o","p","i","c">>,
     <<"c","l","a","u","d","e">>,
     <<"c","h","a","t","g","p","t">>,
     <<"c","u","r","s","o","r">>,
     <<"g","i","t","h","u","b">>,
     <<"g","i","t","l","a","b">>,
     <<"a","w","s">>,
     <<"a","z","u","r","e">>,
     <<"g","o","o","g","l","e"," ","c","l","o","u","d">>,
     <<"d","i","g","i","t","a","l","o","c","e","a","n">>,
     <<"h","e","r","o","k","u">>,
     <<"v","e","r","c","e","l">>,
     <<"n","e","t","l","i","f","y">>,
     <<"c","l","o","u","d","f","l","a","r","e">>,
     <<"n","o","t","i","o","n">>,
     <<"f","i","g","m","a">>,
     <<"c","a","n","v","a">>,
     <<"a","d","o","b","e">>,
     <<"m","i","c","r","o","s","o","f","t"," ","3","6","5">>,
     <<"d","r","o","p","b","o","x">>,
     <<"s","l","a","c","k">>,
     <<"z","o","o","m">>,
     <<"c","a","l","e","n","d","l","y">>,
     <<"z","a","p","i","e","r">>,
     <<"r","e","p","l","i","c","a","t","e">>,
     <<"e","l","e","v","e","n","l","a","b","s">>,
     <<"m","i","d","j","o","u","r","n","e","y">>,
     <<"r","u","n","w","a","y">>,
     <<"t","r","a","d","i","n","g","v","i","e","w">>,
     <<"w","e","b","f","l","o","w">>,
     <<"a","i","r","t","a","b","l","e">>,
     <<"h","u","b","s","p","o","t">>>>],
  [category |-> <<"U","t","i","l","i","t","i","e","s">>,
   patterns |-> <<
     <<"e","l","e","c","t","r","i","c">>,
     <<"g","a","s"," ","c","o">>,
     <<"s","e","w","a","g","e">>,
     <<"p","g","e">>,
     <<"d","u","k","e"," ","e","n","e","r","g","y">>,
     <<"x","c","e","l">>,
     <<"u","t","i","l","i","t","y">>,
     <<"p","o","w","e","r"," ","c","o","m","p","a","n","y">>,
     <<"n","a","t","i","o","n","a","l"," ","g","r","i","d">>>>],
  [category |-> <<"I","n","t","e","r","n","e","t"," ","&"," ","C","a","b","l","e">>,
   patterns |-> <<
     <<"c","o","m","c","a","s","t">>,
     <<"x","f","i","n","i","t","y">>,
     <<"s","p","e","c","t","r","u","m">>,
     <<"v","e","r","i","z","o","n"," ","f","i","o","s">>,
     <<"c","o","x">>,
     <<"f","r","o","n","t","i","e","r">>,
     <<"o","p","t","i","m","u","m">>,
     <<"c","a","b","l","e">>,
     <<"i","n","t","e","r","n","e","t"," ","s","e","r","v","i","c","e">>,
     <<"b","r","o","a","d","b","a","n","d">>>>],
  [category |-> <<"P","h","o","n","e">>,
   patterns |-> <<
     <<"v","e","r","i","z","o","n"," ","w","i","r","e","l","e","s","s">>,
     <<"s","p","r","i","n","t">>,
     <<"a","t","&","t">>,
     <<"c","r","i","c","k","e","t">>,
     <<"m","i","n","t"," ","m","o","b","i","l","e">>,
     <<"v","i","s","i","b","l","e">>,
     <<"g","o","o","g","l","e"," ","f","i">>,
     <<"p","h","o","n","e"," ","b","i","l","l">>>>],
  [category |-> <<"I","n","s","u","r","a","n","c","e">>,
   patterns |-> <<
     <<"i","n","s","u","r","a","n","c","e">>,
     <<"g","e","i","c","o">>,
     <<"p","r","o","g","r","e","s","s","i","v","e">>,
     <<"s","t","a","t","e"," ","f","a","r","m">>,
     <<"a","l","l","s","t","a","t","e">>,
     <<"l","i","b","e","r","t","y"," ","m","u","t","u","a","l">>,
     <<"n","a","t","i","o","n","w","i","d","e">>,
     <<"u","s","a","a">>,
     <<"a","e","t","n","a">>,
     <<"c","i","g","n","a">>,
     <<"b","l","u","e"," ","c","r","o","s","s">>,
     <<"u","n","i","t","e","d"," ","h","e","a","l","t","h">>,
     <<"k","a","i","s","e","r">>,
     <<"a","n","t","h","e","m">>>>],
  [category |-> <<"T","r","a","n","s","p","o","r","t","a","t","i","o","n">>,
   patterns |-> <<
     <<"l","y","f","t">>,
     <<"t","a","x","i">>,
     <<"m","t","a">>,
     <<"m","e","t","r","o">>,
     <<"t","r","a","n","s","i","t">>,
     <<"s","u","b","w","a","y">>,
     <<"b","u","s"," ","p","a","s","s">>,
     <<"p","a","r","k","i","n","g">>,
     <<"g","a","r","a","g","e">>,
     <<"t","o","l","l">>>>],
  [category |-> <<"G","a","s">>,
   patterns |-> <<
     <<"s","h","e","l","l">>,
     <<"c","h","e","v","r","o","n">>,
     <<"e","x","x","o","n">>,
     <<"m","o","b","i","l">>,
     <<"a","r","c","o">>,
     <<"t","e","x","a","c","o">>,
     <<"g","a","s"," ","s","t","a","t","i","o","n">>,
     <<"f","u","e","l">>,
     <<"p","e","t","r","o","l","e","u","m">>,
     <<"s","p","e","e","d","w","a","y">>>>],
  [category |-> <<"S","h","o","p","p","i","n","g">>,
   patterns |-> <<
     <<"w","a","l","m","a","r","t">>,
     <<"t","a","r","g","e","t">>,
     <<"b","e","s","t"," ","b","u","y">>,
     <<"h","o","m","e"," ","d","e","p","o","t">>,
     <<"l","o","w","e","s">>,
     <<"i","k","e","a">>,
     <<"w","a","y","f","a","i","r">>,
     <<"b","e","d"," ","b","a","t","h">>,
     <<"m","a","c","y">>,
     <<"n","o","r","d","s","t","r","o","m">>,
     <<"m","a","r","s","h","a","l","l","s">>,
     <<"r","o","s","s">>,
     <<"k","o","h","l","s">>,
     <<"g","a","p">>,
     <<"o","l","d"," ","n","a","v","y">>,
     <<"h","&","m">>,
     <<"z","a","r","a">>,
     <<"u","n","i","q","l","o">>,
     <<"n","i","k","e">>,
     <<"a","d","i","d","a","s">>,
     <<"a","p","p","l","e"," ","s","t","o","r","e">>,
     <<"e","t","s","y">>,
     <<"e","b","a","y">>>>],
  [category |-> <<"H","e","a","l","t","h"," ","&"," ","M","e","d","i","c","a","l">>,
   patterns |-> <<
     <<"p","h","a","r","m","a","c","y">>,
     <<"c","v","s">>,
     <<"w","a","l","g","r","e","e","n","s">>,
     <<"r","i","t","e"," ","a","i","d">>,
     <<"h","o","s","p","i","t","a","l">>,
     <<"c","l","i","n","i","c">>,
     <<"m","e","d","i","c","a","l">>,
     <<"d","o","c","t","o","r">>,
     <<"d","e","n","t","i","s","t">>,
     <<"o","p","t","o","m">>,
     <<"u","r","g","e","n","t"," ","c","a","r","e">>,
     <<"q","u","e","s","t"," ","d","i","a","g">>,
     <<"l","a","b","c","o","r","p">>,
     <<"p","r","e","s","c","r","i","p","t","i","o","n">>>>],
  [category |-> <<"F","i","t","n","e","s","s">>,
   patterns |-> <<
     <<"g","y","m">>,
     <<"f","i","t","n","e","s","s">>,
     <<"p","l","a","n","e","t"," ","f","i","t","n","e","s","s">>,
     <<"e","q","u","i","n","o","x">>,
     <<"c","r","u","n","c","h">>,
     <<"2","4"," ","h","o","u","r"," ","f","i","t","n","e","s","s">>,
     <<"l","a"," ","f","i","t","n","e","s","s">>,
     <<"o","r","a","n","g","e","t","h","e","o","r","y">>,
     <<"c","r","o","s","s","f","i","t">>,
     <<"p","e","l","o","t","o","n">>,
     <<"y","o","g","a">>,
     <<"p","i","l","a","t","e","s">>>>],
  [category |-> <<"E","n","t","e","r","t","a","i","n","m","e","n","t">>,
   patterns |-> <<
     <<"m","o","v","i","e">>,
     <<"c","i","n","e","m","a">>,
     <<"a","m","c">>,
     <<"r","e","g","a","l">>,
     <<"t","h","e","a","t","e","r">>,
     <<"t","h","e","a","t","r","e">>,
     <<"c","o","n","c","e","r","t">>,
     <<"t","i","c","k","e","t","m","a","s","t","e","r">>,
     <<"s","t","u","b","h","u","b">>,
     <<"e","v","e","n","t","b","r","i","t","e">>,
     <<"m","u","s","e","u","m">>,
     <<"z","o","o">>,
     <<"a","m","u","s","e","m","e","n","t">>,
     <<"b","o","w","l","i","n","g">>,
     <<"a","r","c","a","d","e">>,
     <<"s","t","e","a","m">>,
     <<"p","l","a","y","s","t","a","t","i","o","n">>,
     <<"x","b","o","x">>,
     <<"n","i","n","t","e","n","d","o">>,
     <<"g","a","m","i","n","g">>>>],
  [category |-> <<"T","r","a","v","e","l">>,
   patterns |-> <<
     <<"a","i","r","l","i","n","e">>,
     <<"u","n","i","t","e","d">>,
     <<"d","e","l","t","a">>,
     <<"a","m","e","r","i","c","a","n"," ","a","i","r">>,
     <<"s","o","u","t","h","w","e","s","t">>,
     <<"j","e","t","b","l","u","e">>,
     <<"s","p","i","r","i","t">>,
     <<"f","r","o","n","t","i","e","r">>,
     <<"a","l","a","s","k","a"," ","a","i","r">>,
     <<"f","l","i","g","h","t">>,
     <<"h","o","t","e","l">>,
     <<"m","a","r","r","i","o","t","t">>,
     <<"h","i","l","t","o","n">>,
     <<"h","y","a","t","t">>,
     <<"a","i","r","b","n","b">>,
     <<"v","r","b","o">>,
     <<"e","x","p","e","d","i","a">>,
     <<"k","a","y","a","k">>,
     <<"h","o","p","p","e","r">>,
     <<"p","r","i","c","e","l","i","n","e">>>>],
  [category |-> <<"L","o","a","n","s">>,
   patterns |-> <<
     <<"s","t","u","d","e","n","t"," ","l","o","a","n">>,
     <<"f","e","d","l","o","a","n">>,
     <<"n","e","l","n","e","t">>,
     <<"n","a","v","i","e","n","t">>,
     <<"m","o","r","t","g","a","g","e">>,
     <<"c","a","r"," ","p","a","y","m","e","n","t">>,
     <<"a","u","t","o"," ","l","o","a","n">>,
     <<"p","e","r","s","o","n","a","l"," ","l","o","a","n">>,
     <<"s","o","f","i">>,
     <<"l","e","n","d","i","n","g"," ","c","l","u","b">>,
     <<"c","r","e","d","i","t"," ","c","a","r","d"," ","p","a","y","m","e","n","t">>>>],
  [category |-> <<"R","e","n","t">>,
   patterns |-> <<
     <<"r","e","n","t">>,
     <<"l","a","n","d","l","o","r","d">>,
     <<"p","r","o","p","e","r","t","y"," ","m","a","n","a","g","e","m","e","n","t">>,
     <<"a","p","a","r","t","m","e","n","t">>>>],
  [category |-> <<"T","r","a","n","s","f","e","r","s">>,
   patterns |-> <<
     <<"t","r","a","n","s","f","e","r">>,
     <<"v","e","n","m","o">>,
     <<"z","e","l","l","e">>,
     <<"p","a","y","p","a","l">>,
     <<"w","i","r","e">>>>],
  [category |-> <<"A","T","M","/","C","a","s","h">>,
   patterns |-> <<
     <<"a","t","m">>,
     <<"c","a","s","h"," ","w","i","t","h","d","r","a","w","a","l">>,
     <<"c","a","s","h"," ","a","d","v","a","n","c","e">>>>],
  [category |-> <<"F","e","e","s">>,
   patterns |-> <<
     <<"f","e","e">>,
     <<"c","h","a","r","g","e">>,
     <<"o","v","e","r","d","r","a","f","t">>,
     <<"n","s","f">>,
     <<"s","e","r","v","i","c","e"," ","c","h","a","r","g","e">>,
     <<"m","o","n","t","h","l","y"," ","m","a","i","n","t","e","n","a","n","c","e">>,
     <<"a","t","m"," ","f","e","e">>,
     <<"f","o","r","e","i","g","n"," ","t","r","a","n","s","a","c","t","i","o","n">>>>]>>

OtherIncome == <<"O","t","h","e","r"," ","I","n","c","o","m","e">>
Other == <<"O","t","h","e","r">>

IncomeRuleCount == 5

\* pattern.test(description) for some pattern of the rule
RuleMatches(rule, description) ==
  \E k \in 1..Len(rule.patterns) : RegexTest(rule.patterns[k], description)

\* the category of the first of the rules that matches, else fallback
FirstMatch(rules, description, fallback) ==
  IF \E k \in 1..Len(rules) : RuleMatches(rules[k], description)
  THEN rules[CHOOSE k \in 1..Len(rules) :
               /\ RuleMatches(rules[k], description)
               /\ \A j \in 1..(k - 1) : ~RuleMatches(rules[j], description)].category
  ELSE fallback

\* the same with an income matched against every rule
CategoryOf_AnyRule(income, rules, description) ==
  FirstMatch(rules, description, IF income THEN OtherIncome ELSE Other)

\* the two loops over the rules: the income rules for an income, every rule
\* otherwise
CategoryOf(income, rules, description) ==
  IF income THEN FirstMatch(SubSeq(rules, 1, IncomeRuleCount), description, OtherIncome)
  ELSE FirstMatch(rules, description, Other)

\* a categorizer that ignores the category a transaction already has
categorizeTransaction_Fresh(transaction) ==
  CategoryOf(transaction.type = "income", CATEGORY_RULES, ToLower(transaction.description))

categorizeTransaction(transaction) ==
  IF transaction.category # <<>> /\ transaction.category # Uncategorized
  THEN transaction.category
  ELSE CategoryOf(transaction.type = "income", CATEGORY_RULES,
                  ToLower(transaction.description))

categorizeAllTransactions(transactions) ==
  [i \in 1..Len(transactions) |->
     [transactions[i] EXCEPT !.category = categorizeTransaction(transactions[i])]]

-----------------------------------------------------------------------------
(* CSV parser (csv-processor.ts).  The input is what Papa.parse returns:     *)
(* the header names and one row per line, a row mapping headers to cells.    *)

COLUMN_MAPPINGS ==
  [date |-> <<<<"d","a","t","e">>,
              <<"t","r","a","n","s"," ","d","a","t","e">>,
              <<"t","r","a","n","s","a","c","t","i","o","n"," ","d","a","t","e">>,
              <<"p","o","s","t","e","d"," ","d","a","t","e">>,
              <<"p","o","s","t","i","n","g"," ","d","a","t","e">>>>,
   description |-> <<<<"d","e","s","c","r","i","p","t","i","o","n">>,
                     <<"m","e","m","o">>,
                     <<"d","e","t","a","i","l","s">>,
                     <<"t","r","a","n","s","a","c","t","i","o","n"," ","d","e","s","c","r","i","p","t","i","o","n">>,
                     <<"p","a","y","e","e">>>>,
   amount |-> <<<<"a","m","o","u","n","t">>,
                <<"t","r","a","n","s","a","c","t","i","o","n"," ","a","m","o","u","n","t">>>>,
   withdrawal |-> <<<<"w","i","t","h","d","r","a","w","a","l">>,
                    <<"w","i","t","h","d","r","a","w","a","l","s">>,
                    <<"d","e","b","i","t">>,
                    <<"d","e","b","i","t","s">>,
                    <<"a","m","o","u","n","t"," ","d","e","b","i","t">>>>,
   deposit |-> <<<<"d","e","p","o","s","i","t">>,
                 <<"d","e","p","o","s","i","t","s">>,
                 <<"c","r","e","d","i","t">>,
                 <<"c","r","e","d","i","t","s">>,
                 <<"a","m","o","u","n","t"," ","c","r","e","d","i","t">>>>,
   balance |-> <<<<"b","a","l","a","n","c","e">>,
                 <<"r","u","n","n","i","n","g"," ","b","a","l","a","n","c","e">>,
                 <<"a","v","a","i","l","a","b","l","e"," ","b","a","l","a","n","c","e">>>>,
   category |-> <<<<"c","a","t","e","g","o","r","y">>,
                  <<"t","y","p","e">>,
                  <<"t","r","a","n","s","a","c","t","i","o","n"," ","t","y","p","e">>>>]

\* lowerHeaders.indexOf(mapping), 1-based; 0 when absent
IndexOf(list, x) ==
  IF \E i \in 1..Len(list) : list[i] = x
  THEN CHOOSE i \in 1..Len(list) : list[i] = x /\ \A j \in 1..(i - 1) : list[j] # x
  ELSE 0

\* the loop over the mappings
RECURSIVE FirstMapped(_, _, _)
FirstMapped(headers, lowerHeaders, mappings) ==
  IF mappings = <<>> THEN None
  ELSE IF IndexOf(lowerHeaders, Head(mappings)) # 0
       THEN Some(headers[IndexOf(lowerHeaders, Head(mappings))])
       ELSE FirstMapped(headers, lowerHeaders, Tail(mappings))

\* the header of the first mapping that is, lower-cased and trimmed, a header
findColumn(headers, mappings) ==
  FirstMapped(headers, [i \in 1..Len(headers) |-> Trim(ToLower(headers[i]))], mappings)

parseAmount(value) ==
  IF ~IsSome(value) \/ Get(value) = <<>> THEN 0
  ELSE Abs(OrZero(ParseFloat(StripCurrency(Get(value)))))

Contains(str, c) == \E i \in 1..Len(str) : str[i] = c

\* the first account whose keywords the lower-cased file name includes
AccountOf(lower) ==
  IF Includes(lower, <<"c","h","e","c","k">>) \/ Includes(lower, <<"c","h","k">>)
  THEN <<"C","h","e","c","k","i","n","g">>
  ELSE IF Includes(lower, <<"s","a","v","i","n","g">>) \/ Includes(lower, <<"s","a","v">>)
  THEN <<"S","a","v","i","n","g","s">>
  ELSE IF Includes(lower, <<"c","r","e","d","i","t">>) \/ Includes(lower, <<"c","c">>)
  THEN <<"C","r","e","d","i","t"," ","C","a","r","d">>
  ELSE <<"A","c","c","o","u","n","t">>

inferAccountFromFilename(filename) == AccountOf(ToLower(filename))

\* row[col] of an optional column: None when there is no such column or cell
CellOf(row, col) == IF IsSome(col) THEN Cell(row, Get(col)) ELSE None

NumericColumns == {"amount", "withdrawal", "deposit", "balance"}

\* parseAmount of the cell of each numeric column; 0 without the column
RowAmounts(row, cols) == [c \in NumericColumns |-> parseAmount(CellOf(row, cols[c]))]

\* amount and type from the amount column: String(row[amountCol] || '')
\* with a minus sign or a parenthesis is an expense
FromAmountColumn(rawAmount, cell) ==
  [amount |-> rawAmount,
   type |-> IF Truthy(cell) /\ (Contains(Get(cell), "-") \/ Contains(Get(cell), "("))
            THEN "expense" ELSE "income"]

\* amount and type from separate withdrawal and deposit columns
FromTwoColumns(withdrawal, deposit) ==
  IF withdrawal > 0 THEN [amount |-> withdrawal, type |-> "expense"]
  ELSE IF deposit > 0 THEN [amount |-> deposit, type |-> "income"]
  ELSE [amount |-> 0, type |-> "expense"]

\* row[col]?.trim() || fallback
TrimmedOr(cell, fallback) ==
  IF IsSome(cell) /\ Trim(Get(cell)) # <<>> THEN Trim(Get(cell)) ELSE fallback

\* the end of the loop body: the row is skipped, or a transaction is pushed
PushRow(dateStr, parsedAmount, description, category, balance, account) ==
  IF ~Truthy(dateStr) \/ parsedAmount.amount = 0 THEN None
  ELSE Some(Transaction(Get(dateStr), description, parsedAmount.amount,
                        parsedAmount.type, category, balance, account))

RowWith(row, cols, account, amounts) ==
  PushRow(CellOf(row, cols.date),
          IF IsSome(cols.amount)
          THEN FromAmountColumn(amounts.amount, CellOf(row, cols.amount))
          ELSE FromTwoColumns(amounts.withdrawal, amounts.deposit),
          TrimmedOr(CellOf(row, cols.description), UnknownDescription),
          TrimmedOr(CellOf(row, cols.category), <<>>),
          amounts.balance, account)

\* the transaction of one row, None when the row is skipped
ParseRow(row, cols, account) == RowWith(row, cols, account, RowAmounts(row, cols))

RECURSIVE ParseRows(_, _, _)
ParseRows(rws, cols, account) ==
  IF rws = <<>> THEN <<>>
  ELSE ParseRow(Head(rws), cols, account) \o ParseRows(Tail(rws), cols, account)

\* b.date after a.date: the comparator new Date(b.date) - new Date(a.date)
\* is positive; with an Invalid Date it is NaN, which sort takes as 0
After(tb, ta) == IsSome(tb) /\ IsSome(ta) /\ Get(tb) > Get(ta)
Later(b, a) == After(GetTime(b.date), GetTime(a.date))

RECURSIVE InsertByDate(_, _)
InsertByDate(txn, sorted) ==
  IF sorted = <<>> THEN <<txn>>
  ELSE IF Later(txn, Head(sorted)) THEN <<txn>> \o sorted
       ELSE <<Head(sorted)>> \o InsertByDate(txn, Tail(sorted))

\* .sort by date, most recent first, stable
RECURSIVE SortByDateDesc(_)
SortByDateDesc(transactions) ==
  IF transactions = <<>> THEN <<>>
  ELSE InsertByDate(transactions[Len(transactions)],
                    SortByDateDesc(SubSeq(transactions, 1, Len(transactions) - 1)))

\* the column of each mapping
Columns(headers) ==
  [c \in DOMAIN COLUMN_MAPPINGS |-> findColumn(headers, COLUMN_MAPPINGS[c])]

\* the returned value
ParsedCSV(transactions, account) ==
  [transactions |-> transactions,
   account |-> account,
   startBalance |-> IF transactions # <<>> THEN transactions[Len(transactions)].balance
                    ELSE 0,
   endBalance |-> IF transactions # <<>> THEN transactions[1].balance ELSE 0]

ParseWith(rws, cols, account) ==
  ParsedCSV(SortByDateDesc(ParseRows(rws, cols, account)), account)

parseCSV(headers, rws, filename) ==
  ParseWith(rws, Columns(headers), inferAccountFromFilename(filename))

-----------------------------------------------------------------------------
(* OFX/QBO parser (qbo-parser.ts).  The markup is taken after tag lookup: an *)
(* element maps the tags it holds to their raw text, and a statement is the  *)
(* element of its own tags, the list of its STMTTRN blocks and whether it    *)
(* holds <CREDITCARDMSGSRSV1>.  A number that may be NaN is an optional      *)
(* value, None being NaN.                                                    *)

\* String.prototype.substring(a, b)
Substring(str, a, b) == SubSeq(str, a + 1, Min(b, Len(str)))

\* `${year}-${month}-${day}` of the first eight characters
OFXDateOf(cleanDate) ==
  Substring(cleanDate, 0, 4) \o <<"-">> \o Substring(cleanDate, 4, 6) \o <<"-">>
  \o Substring(cleanDate, 6, 8)

\* parseOFXDate: what follows a '[' is dropped
parseOFXDate(dateStr) ==
  IF dateStr = <<>> THEN <<>> ELSE OFXDateOf(SplitOn(dateStr, "[")[1])

\* extractTag: the trimmed value of the tag, '' when the element has none
extractTag(element, tag) ==
  IF tag \in DOMAIN element THEN Trim(element[tag]) ELSE <<>>

\* inferAccountType once the file name told nothing
AccountTypeOf(acctType, creditCardMsgs) ==
  IF ToLower(acctType) = <<"c","h","e","c","k","i","n","g">>
  THEN <<"C","h","e","c","k","i","n","g">>
  ELSE IF ToLower(acctType) = <<"s","a","v","i","n","g","s">>
  THEN <<"S","a","v","i","n","g","s">>
  ELSE IF ToLower(acctType) = <<"c","r","e","d","i","t","c","a","r","d">>
          \/ creditCardMsgs
  THEN <<"C","r","e","d","i","t"," ","C","a","r","d">>
  ELSE <<"A","c","c","o","u","n","t">>

\* inferAccountType: the three tests of the file name are those of
\* inferAccountFromFilename
inferAccountType(filename, statement) ==
  IF inferAccountFromFilename(filename) # <<"A","c","c","o","u","n","t">>
  THEN inferAccountFromFilename(filename)
  ELSE AccountTypeOf(extractTag(statement.tags, "ACCTTYPE"), statement.creditCardMsgs)

\* description: name - memo, else name #checkNum, else name
QBODescription(name, memo, checkNum) ==
  IF memo # <<>> THEN name \o <<" ","-"," ">> \o memo
  ELSE IF checkNum # <<>> THEN name \o <<" ","#">> \o checkNum
  ELSE name

\* the entry pushed to parsedTxns, amount being parseFloat(amountStr) || 0;
\* date is txn.date, which the comparator of the sort reads
QBOEntry(datePosted, amount, description, accountType) ==
  [txn |-> Transaction(datePosted, description, Abs(amount),
                       IF amount > 0 THEN "income" ELSE "expense", Uncategorized,
                       Some(0), accountType),
   amount |-> amount,
   date |-> datePosted]

\* the body of `for (const block of txnBlocks)`
QBOBlock(block, accountType) ==
  QBOEntry(parseOFXDate(extractTag(block, "DTPOSTED")),
           OrZero(ParseFloat(extractTag(block, "TRNAMT"))),
           QBODescription(IF extractTag(block, "NAME") # <<>>
                          THEN extractTag(block, "NAME")
                          ELSE extractTag(block, "PAYEE"),
                          extractTag(block, "MEMO"), extractTag(block, "CHECKNUM")),
           accountType)

\* balance - amount, NaN staying NaN
Less(balance, amount) == IF IsSome(balance) THEN Some(Get(balance) - amount) ELSE None

\* a faulty walk: the balance is written after the amount is taken off
RECURSIVE QBOWalk_After(_, _)
QBOWalk_After(parsedTxns, balance) ==
  IF parsedTxns = <<>> THEN [txns |-> <<>>, balance |-> balance]
  ELSE [txns |-> <<[Head(parsedTxns).txn
                      EXCEPT !.balance = Less(balance, Head(parsedTxns).amount)]>>
                 \o QBOWalk_After(Tail(parsedTxns),
                                  Less(balance, Head(parsedTxns).amount)).txns,
        balance |-> QBOWalk_After(Tail(parsedTxns),
                                  Less(balance, Head(parsedTxns).amount)).balance]

\* the loop that writes the balances: txn.balance = balance; balance -= amount
RECURSIVE QBOWalk(_, _)
QBOWalk(parsedTxns, balance) ==
  IF parsedTxns = <<>> THEN [txns |-> <<>>, balance |-> balance]
  ELSE [txns |-> <<[Head(parsedTxns).txn EXCEPT !.balance = balance]>>
                 \o QBOWalk(Tail(parsedTxns),
                            Less(balance, Head(parsedTxns).amount)).txns,
        balance |-> QBOWalk(Tail(parsedTxns),
                            Less(balance, Head(parsedTxns).amount)).balance]

\* accountId: the last four characters after ****, undefined without ACCTID
MaskedId(accountId) ==
  IF accountId = <<>> THEN None
  ELSE Some(<<"*","*","*","*">>
            \o SubSeq(accountId, IF Len(accountId) > 4 THEN Len(accountId) - 3 ELSE 1,
                      Len(accountId)))

\* the returned value
QBOParseResult(walked, accountType, endBalance, tags) ==
  [transactions |-> walked.txns,
   account |-> accountType,
   bankId |-> extractTag(tags, "BANKID"),
   accountId |-> MaskedId(extractTag(tags, "ACCTID")),
   accountType |-> accountType,
   startDate |-> parseOFXDate(extractTag(tags, "DTSTART")),
   endDate |-> parseOFXDate(extractTag(tags, "DTEND")),
   startBalance |-> walked.balance,
   endBalance |-> endBalance]

\* parseQBO from the sort on
QBOParsed(entries, accountType, endBalance, tags) ==
  QBOParseResult(QBOWalk(SortByDateDesc(entries), endBalance), accountType, endBalance,
                 tags)

\* endBalance: ledgerBal ? parseFloat(ledgerBal) : 0
EndBalance(ledgerBal) == IF ledgerBal # <<>> THEN ParseFloat(ledgerBal) ELSE Some(0)

QBOWith(statement, accountType) ==
  QBOParsed([b \in 1..Len(statement.blocks) |-> QBOBlock(statement.blocks[b], accountType)],
            accountType, EndBalance(extractTag(statement.tags, "BALAMT")),
            statement.tags)

parseQBO(statement, filename) == QBOWith(statement, inferAccountType(filename, statement))

-----------------------------------------------------------------------------
(* The rules and statement rows the engine is explored on *)

MaxRules == 2
MaxTxns == 2
MaxTicks == 2
MaxClock == 3

Food == <<"F","o","o","d">>
Home == <<"H","o","m","e">>
Fun == <<"F","u","n">>
Taxi == <<"T","a","x","i">>

TextCondition(field, matchType, value) ==
  [field |-> field, matchType |-> matchType, value |-> value,
   minAmount |-> None, maxAmount |-> None]
AmountCondition(minAmount, maxAmount) ==
  [field |-> "amount", matchType |-> "contains", value |-> <<>>,
   minAmount |-> minAmount, maxAmount |-> maxAmount]

CategorizeAction(category) ==
  [type |-> "categorize", category |-> category, newName |-> None, splits |-> None]
RenameAction(newName) ==
  [type |-> "rename", category |-> None, newName |-> newName, splits |-> None]
SplitAction(splits) ==
  [type |-> "split", category |-> None, newName |-> None, splits |-> splits]

Percentage(category, percentage) ==
  [category |-> category, percentage |-> Some(percentage), fixedAmount |-> None,
   memo |-> None]
FixedAmount(category, fixedAmount) ==
  [category |-> category, percentage |-> None, fixedAmount |-> Some(fixedAmount),
   memo |-> None]
Remainder(category) ==
  [category |-> category, percentage |-> None, fixedAmount |-> None, memo |-> None]

CustomRule(id, name, enabled, priority, conditions, conditionLogic, action) ==
  [id |-> id, name |-> name, enabled |-> enabled, priority |-> priority,
   conditions |-> conditions, conditionLogic |-> conditionLogic, action |-> action]

DescriptionHasA == TextCondition("description", "contains", <<"A">>)

RuleCatalog == <<
  \* halves, as createSplitRule makes them (priority 10)
  CustomRule(<<0, 1>>, <<"h","a","l","f">>, TRUE, 10, <<DescriptionHasA>>, "AND",
             SplitAction(Some(<<Percentage(Food, 50), Percentage(Home, 50)>>))),
  \* a fixed amount, then a percentage
  CustomRule(<<0, 2>>, <<"f","i","x">>, TRUE, 10, <<DescriptionHasA>>, "AND",
             SplitAction(Some(<<FixedAmount(Food, Cents(8000)), Percentage(Home, 50)>>))),
  \* a fixed amount, a percentage and a remainder allocation
  CustomRule(<<0, 3>>, <<"m","i","x">>, TRUE, 10, <<DescriptionHasA>>, "AND",
             SplitAction(Some(<<FixedAmount(Food, Cents(8000)), Percentage(Home, 50),
                                Remainder(Fun)>>))),
  \* splits what is categorized Food, whole fragments included
  CustomRule(<<0, 4>>, <<"f","o","o","d">>, TRUE, 20,
             <<TextCondition("category", "exact", <<"f","o","o","d">>)>>, "AND",
             SplitAction(Some(<<Percentage(Fun, 60), Remainder(Home)>>))),
  \* categorizes what is categorized Food or costs at most 1.00
  CustomRule(<<0, 5>>, <<"c","a","t">>, TRUE, 50,
             <<TextCondition("category", "regex", <<"f",".","o">>),
               AmountCondition(None, Some(Cents(100)))>>, "OR",
             CategorizeAction(Some(Fun))),
  \* renames, as createCategorizationRule's priority (50)
  CustomRule(<<0, 6>>, <<"t","a","x","i">>, TRUE, 50,
             <<TextCondition("description", "startsWith", <<"c","a">>),
               AmountCondition(Some(Cents(5000)), None)>>, "AND",
             RenameAction(Some(Taxi))),
  \* a categorize action with an empty category
  CustomRule(<<0, 7>>, <<"n","o","c","a","t">>, TRUE, 60,
             <<TextCondition("description", "endsWith", <<"B">>)>>, "AND",
             CategorizeAction(Some(<<>>))),
  \* a split action with an empty allocation list
  CustomRule(<<0, 8>>, <<"e","m","p","t","y">>, TRUE, 60, <<DescriptionHasA>>, "AND",
             SplitAction(Some(<<>>))),
  \* a rename action with no new name, a split action with no list
  CustomRule(<<0, 9>>, <<"n","o","n","e">>, TRUE, 5, <<DescriptionHasA>>, "AND",
             RenameAction(None)),
  \* a disabled rule that would match and categorize
  CustomRule(<<0, 10>>, <<"o","f","f">>, FALSE, 1, <<DescriptionHasA>>, "AND",
             CategorizeAction(Some(Home))) >>

\* the lists of at most n distinct elements of a catalog
Lists(catalog, n) ==
  UNION {{[i \in 1..k |-> catalog[f[i]]] :
             f \in {g \in [1..k -> 1..Len(catalog)] :
                      \A i, j \in 1..k : i # j => g[i] # g[j]}} : k \in 0..n}

\* the lists of at most n elements of a catalog
Files(catalog, n) ==
  UNION {{[i \in 1..k |-> catalog[f[i]]] : f \in [1..k -> 1..Len(catalog)]} : k \in 0..n}

HDate == <<"D","a","t","e">>
HDescription == <<"D","e","s","c","r","i","p","t","i","o","n">>
HAmount == <<"A","m","o","u","n","t">>
HCategory == <<"C","a","t","e","g","o","r","y">>
HBalance == <<"B","a","l","a","n","c","e">>
HDeposit == <<"D","e","p","o","s","i","t">>
HWithdrawal == <<"W","i","t","h","d","r","a","w","a","l">>

StatementHeaders == <<HDate, HDescription, HAmount, HCategory>>

StatementRow(date, description, amount, category) ==
  (HDate :> date) @@ (HDescription :> description) @@ (HAmount :> amount)
  @@ (HCategory :> category)

StatementRows == <<
  StatementRow(<<"2","0","2","4","-","0","3","-","1","5">>, <<"C","a","b">>, <<"-","1","0","0",".","0","0">>, <<>>),
  StatementRow(<<"2","0","2","4","-","0","3","-","1","6">>, <<"P","a","y","r","o","l","l">>, <<"$","0",".","0","3">>, <<>>),
  StatementRow(<<"2","0","2","4","-","0","3","-","1","4">>, <<"G","y","m">>, <<"(","5","0",".","0","0",")">>, Food) >>

StatementName == <<"c","h","e","c","k","i","n","g",".","c","s","v">>

-----------------------------------------------------------------------------
(* Dashboard (app/dashboard/page.tsx) *)

RECURSIVE Flatten(_)
Flatten(lists) == IF lists = <<>> THEN <<>> ELSE Head(lists) \o Flatten(Tail(lists))

\* processTransactions(parsedData).transactions
MergedTransactions(parsedData) ==
  SortByDateDesc(Flatten([i \in 1..Len(parsedData) |-> parsedData[i].transactions]))

\* processTransactions throws: toISOString of an Invalid Date raises a
\* RangeError, and the daily spending takes it of every expense
Throws(transactions) ==
  \E i \in 1..Len(transactions) :
    transactions[i].type = "expense" /\ ~IsSome(GetTime(transactions[i].date))

\* fileValidations: every file here is a CSV file
FileValidations(files) ==
  [i \in 1..Len(files) |->
     [filename |-> files[i].name,
      result |-> validateParsedCSV(files[i].rows, files[i].headers, files[i].name,
                                   [validateBalance |-> Some(TRUE),
                                    requiredColumns |-> None])]]

\* parsedFiles, before the transactions are categorized
ParsedFiles(files) ==
  [i \in 1..Len(files) |-> parseCSV(files[i].headers, files[i].rows, files[i].name)]

\* parsedFiles.forEach(pf => pf.transactions = categorizeAllTransactions(...))
CategorizedFiles(parsedFiles) ==
  [i \in 1..Len(parsedFiles) |->
     [parsedFiles[i] EXCEPT !.transactions = categorizeAllTransactions(@)]]

\* the try block from processTransactions on: what is caught leaves the
\* page without data
ProcessFiles(transactions, ticks) ==
  IF Throws(transactions)
  THEN UNCHANGED <<base, processed, calls, now>>
  ELSE \E withRules \in {applyRulesToAll(EngineStart(now), transactions, store, ticks)} :
         /\ base' = Some(transactions)
         /\ processed' = withRules.all
         /\ calls' = withRules.calls
         /\ now' = withRules.clock

\* the useEffect of Dashboard, which runs once when the page mounts, the
\* upload page having stored `files`
LoadFiles(files, ticks) ==
  /\ isLoading
  /\ financeData' = files
  /\ validations' = FileValidations(files)
  /\ \E parsedFiles \in {ParsedFiles(files)} :
       /\ parsed' = Flatten([i \in 1..Len(parsedFiles) |-> parsedFiles[i].transactions])
       /\ ProcessFiles(MergedTransactions(CategorizedFiles(parsedFiles)), ticks)
  /\ isLoading' = FALSE
  /\ iif' = <<>>
  /\ iifResult' = None
  /\ UNCHANGED <<store, editorRules, content, vs, rows, balErrors, catIn, catOnce,
                 catTwice, lastOp, exportLog, qbo>>

\* the load of one uploaded statement; the file is read anew at every load
LoadDashboard(rws, ticks) ==
  /\ LoadFiles(<<[name |-> StatementName, headers |-> StatementHeaders, rows |-> rws]>>,
               ticks)

\* the same with the rules applied to the list the page shows
handleRulesChange_OnShown(stored, ticks) ==
  IF IsSome(base)
  THEN \E withRules \in {applyRulesToAll(EngineStart(now), processed, stored, ticks)} :
         /\ processed' = withRules.all
         /\ calls' = withRules.calls
         /\ now' = withRules.clock
         /\ iifResult' = None
  ELSE UNCHANGED <<processed, calls, now, iifResult>>

\* handleRulesChange, the rules in the store being `stored`
handleRulesChange(stored, ticks) ==
  IF IsSome(base)
  THEN \E withRules \in {applyRulesToAll(EngineStart(now), Get(base), stored, ticks)} :
         /\ processed' = withRules.all
         /\ calls' = withRules.calls
         /\ now' = withRules.clock
         /\ iifResult' = None
  ELSE UNCHANGED <<processed, calls, now, iifResult>>

\* the rules are applied again, the page showing data
RulesChange(ticks) ==
  /\ IsSome(base)
  /\ now < MaxClock
  /\ handleRulesChange(store, ticks)
  /\ UNCHANGED <<store, editorRules, base, iif, content, vs, rows, balErrors, catIn,
                 catOnce, catTwice, parsed, lastOp,
                 validations, exportLog, isLoading, financeData, qbo>>

\* the same, downloadIIF being called whatever the user answers
ExportSteps_Always(validation, proceed) ==
  <<"setIifValidation">>
  \o (IF ~validation.valid THEN <<IF proceed THEN "confirm: OK" ELSE "confirm: Cancel">>
      ELSE <<>>)
  \o <<"downloadIIF">>

\* handleExportIIF once the text is validated: setIifValidation, then the
\* confirm dialog when the text is not valid, then downloadIIF unless the
\* user declined
ExportSteps(validation, proceed) ==
  <<"setIifValidation">>
  \o (IF ~validation.valid THEN <<IF proceed THEN "confirm: OK" ELSE "confirm: Cancel">>
      ELSE <<>>)
  \o (IF validation.valid \/ proceed THEN <<"downloadIIF">> ELSE <<>>)

\* confirm() is called when the text is not valid, and the user answers
Answers(validation) == IF validation.valid THEN {TRUE} ELSE BOOLEAN

\* handleExportIIF
handleExportIIF ==
  IF processed = <<>>
  THEN /\ exportLog' = Some(<<>>)
       /\ UNCHANGED <<iif, iifResult>>
  ELSE \E text \in {generateIIF(processed, DEFAULT_OPTIONS)} :
       \E validation \in {validateIIF(text)} :
         /\ iif' = text
         /\ iifResult' = Some(validation)
         /\ \E proceed \in Answers(validation) :
              exportLog' = Some(ExportSteps(validation, proceed))

\* the user clicks the export button
ExportIIF ==
  /\ handleExportIIF
  /\ UNCHANGED <<store, editorRules, now, base, processed, calls, content, vs, rows,
                 balErrors, catIn, catOnce, catTwice, parsed, lastOp,
                 validations, isLoading, financeData, qbo>>

Idle ==
  /\ editorRules = None /\ now = 0 /\ base = None /\ processed = <<>> /\ calls = <<>>
  /\ iif = <<>> /\ iifResult = None /\ content = <<>> /\ vs = IIFStart /\ rows = <<>>
  /\ balErrors = <<>> /\ catIn = <<>> /\ catOnce = <<>> /\ catTwice = <<>>
  /\ parsed = <<>> /\ lastOp = None
  /\ validations = <<>> /\ exportLog = None /\ isLoading = TRUE /\ financeData = <<>> /\ qbo = None

\* The engine: any persisted rule list, the dashboard loading a statement,
\* re-applying the rules and exporting
Init == store \in Lists(RuleCatalog, MaxRules) /\ Idle

Next ==
  \/ \E rws \in Files(StatementRows, MaxTxns), ticks \in [1..MaxTicks -> BOOLEAN] :
       LoadDashboard(rws, ticks)
  \/ \E ticks \in [1..MaxTicks -> BOOLEAN] : RulesChange(ticks)
  \/ ExportIIF

Spec == Init /\ [][Next]_vars

-----------------------------------------------------------------------------
(* The rule store (custom-rules.ts) and the rules editor (rules-editor.tsx). *)
(* An id `rule_${Date.now()}_${random}` is the pair of the clock and the      *)
(* random part.                                                              *)

MaxStored == 1
MaxRandom == 2

generateRuleId(clock, random) == <<clock, random>>

\* rules.findIndex(r => r.id === id), 1-based; 0 when absent
FindIndex(rules, id) ==
  IF \E i \in 1..Len(rules) : rules[i].id = id
  THEN CHOOSE i \in 1..Len(rules) : rules[i].id = id /\ \A j \in 1..(i - 1) : rules[j].id # id
  ELSE 0

\* .filter(r => keep(r)) for the rules whose id is not in ids
RECURSIVE WithoutIds(_, _)
WithoutIds(rules, ids) ==
  IF rules = <<>> THEN <<>>
  ELSE IF Head(rules).id \in ids THEN WithoutIds(Tail(rules), ids)
       ELSE <<Head(rules)>> \o WithoutIds(Tail(rules), ids)

\* addRule: what is stored and what is returned
addRule(stored, rule, id) ==
  [stored |-> Append(stored, [rule EXCEPT !.id = id]),
   result |-> Some([rule EXCEPT !.id = id])]

\* { ...rule, ...updates }
Spread(rule, updates) ==
  [f \in DOMAIN rule |-> IF f \in DOMAIN updates THEN updates[f] ELSE rule[f]]

UpdatedAt(stored, index, updates) ==
  IF index = 0 THEN [stored |-> stored, result |-> None]
  ELSE [stored |-> [stored EXCEPT ![index] = Spread(@, updates)],
        result |-> Some(Spread(stored[index], updates))]

updateRule(stored, id, updates) == UpdatedAt(stored, FindIndex(stored, id), updates)

Deleted(stored, filtered) ==
  IF Len(filtered) = Len(stored) THEN [stored |-> stored, result |-> FALSE]
  ELSE [stored |-> filtered, result |-> TRUE]

deleteRule(stored, id) == Deleted(stored, WithoutIds(stored, {id}))

Merged(stored, newRules) == [stored |-> stored \o newRules, result |-> Len(newRules)]

\* the same with an empty list saved when the text is no array of rules
importRules_Wipes(stored, json, merge) ==
  IF json.kind # "array" THEN [stored |-> <<>>, result |-> 0]
  ELSE IF merge
       THEN Merged(stored, WithoutIds(json.rules, {stored[i].id : i \in 1..Len(stored)}))
       ELSE [stored |-> json.rules, result |-> Len(json.rules)]

\* importRules of a text that does not parse ("garbage"), parses to
\* something that is no array ("object"), or parses to an array of rules
importRules(stored, json, merge) ==
  IF json.kind # "array" THEN [stored |-> stored, result |-> 0]
  ELSE IF merge
       THEN Merged(stored, WithoutIds(json.rules, {stored[i].id : i \in 1..Len(stored)}))
       ELSE [stored |-> json.rules, result |-> Len(json.rules)]

\* ruleToSave of handleSaveRule: a draft carries an optional id
RuleToSave(draft, id) == [draft EXCEPT !.id = IF IsSome(@) THEN Get(@) ELSE id]

\* newRules of handleSaveRule
PutAt(rules, existingIndex, ruleToSave) ==
  IF existingIndex > 0 THEN [rules EXCEPT ![existingIndex] = ruleToSave]
  ELSE Append(rules, ruleToSave)

SavedRules(rules, ruleToSave) == PutAt(rules, FindIndex(rules, ruleToSave.id), ruleToSave)

\* newRules of handleToggleEnabled
ToggledRules(rules, id) ==
  [i \in 1..Len(rules) |->
     IF rules[i].id = id THEN [rules[i] EXCEPT !.enabled = ~@] ELSE rules[i]]

\* The drafts and rules the store is explored on: a valid categorization
\* rule and the editor's EmptyRule with a condition filled in and no name
ValidDraft ==
  CustomRule(None, <<"o","k">>, TRUE, 50, <<DescriptionHasA>>, "AND",
             CategorizeAction(Some(Fun)))
UnnamedDraft ==
  CustomRule(None, <<>>, TRUE, 50, <<DescriptionHasA>>, "AND",
             CategorizeAction(Some(Uncategorized)))
Drafts == {ValidDraft, UnnamedDraft}

RuleIds == {generateRuleId(0, r) : r \in 0..(MaxRandom - 1)}

Updates == {[enabled |-> FALSE], [name |-> <<>>]}

\* the texts given to importRules
ImportTexts ==
  {[kind |-> "garbage"], [kind |-> "object"], [kind |-> "array", rules |-> <<>>]}
  \cup {[kind |-> "array", rules |-> <<[d EXCEPT !.id = id]>>] : d \in Drafts, id \in RuleIds}

\* a call of a store function from outside the editor, the store holding at
\* most cap rules; the record of the call is made when the call is made
StoreCall(cap, op, arg, outcome) ==
  /\ Len(outcome.stored) <= cap
  /\ store' = outcome.stored
  /\ lastOp' = Some([op |-> op, arg |-> arg, result |-> outcome.result])
  /\ UNCHANGED <<editorRules, now, base, processed, calls, iif, iifResult, content, vs,
                 rows, balErrors, catIn, catOnce, catTwice, parsed,
                 validations, exportLog, isLoading, financeData, qbo>>

AddRule(cap) ==
  \E d \in Drafts, r \in 0..(MaxRandom - 1) :
    /\ StoreCall(cap, "addRule", [rule |-> d], addRule(store, d, generateRuleId(now, r)))

UpdateRule(cap) ==
  \E id \in RuleIds, updates \in Updates :
    /\ StoreCall(cap, "updateRule", [id |-> id, updates |-> updates],
                 updateRule(store, id, updates))

DeleteRule(cap) ==
  \E id \in RuleIds :
    /\ StoreCall(cap, "deleteRule", [id |-> id], deleteRule(store, id))

ImportRules(cap, texts) ==
  \E json \in texts, merge \in BOOLEAN :
    /\ StoreCall(cap, "importRules", [json |-> json, merge |-> merge],
                 importRules(store, json, merge))

\* the editor opens: setRules(loadRules())
EditorOpen ==
  /\ editorRules = None
  /\ editorRules' = Some(store)
  /\ UNCHANGED <<store, now, base, processed, calls, iif, iifResult, content, vs, rows,
                 balErrors, catIn, catOnce, catTwice, parsed, lastOp,
                 validations, exportLog, isLoading, financeData, qbo>>

EditorClose ==
  /\ IsSome(editorRules)
  /\ editorRules' = None
  /\ UNCHANGED <<store, now, base, processed, calls, iif, iifResult, content, vs, rows,
                 balErrors, catIn, catOnce, catTwice, parsed, lastOp,
                 validations, exportLog, isLoading, financeData, qbo>>

\* setRules(newRules); saveRules(newRules); onRulesChange()
EditorCommit(cap, newRules) ==
  /\ Len(newRules) <= cap
  /\ now < MaxClock
  /\ editorRules' = Some(newRules)
  /\ store' = newRules
  /\ handleRulesChange(newRules, <<>>)
  /\ UNCHANGED <<base, iif, content, vs, rows, balErrors, catIn, catOnce, catTwice,
                 parsed, lastOp,
                 validations, exportLog, isLoading, financeData, qbo>>

\* handleSaveRule of a new draft or of an edited copy of a listed rule
EditorSave(cap) ==
  /\ IsSome(editorRules)
  /\ \E draft \in Drafts
          \cup {[Get(editorRules)[i] EXCEPT !.id = Some(@), !.name = n] :
                  i \in 1..Len(Get(editorRules)), n \in {<<>>, <<"o","k">>}},
        r \in 0..(MaxRandom - 1) :
       IF RuleValid(draft)
       THEN EditorCommit(cap, SavedRules(Get(editorRules),
                                    RuleToSave(draft, generateRuleId(now, r))))
       ELSE UNCHANGED vars

EditorToggle(cap) ==
  /\ IsSome(editorRules)
  /\ \E id \in RuleIds : EditorCommit(cap, ToggledRules(Get(editorRules), id))

\* handleDeleteRule, confirmed: deleteRule(id); setRules(loadRules())
EditorDelete ==
  /\ IsSome(editorRules)
  /\ now < MaxClock
  /\ \E id \in RuleIds :
       /\ store' = deleteRule(store, id).stored
       /\ editorRules' = Some(store')
       /\ handleRulesChange(store', <<>>)
       /\ UNCHANGED <<base, iif, content, vs, rows, balErrors, catIn, catOnce, catTwice,
                      parsed, lastOp,
                 validations, exportLog, isLoading, financeData, qbo>>

\* The store and the editor: no rule is stored at first; the page loads one
\* statement; store functions and editor handlers run in any order
InitStore == store = <<>> /\ Idle

NextStore ==
  \/ LoadDashboard(<<StatementRows[1]>>, <<>>)
  \/ AddRule(MaxStored)
  \/ UpdateRule(MaxStored)
  \/ DeleteRule(MaxStored)
  \/ ImportRules(MaxStored, ImportTexts)
  \/ EditorOpen
  \/ EditorClose
  \/ EditorSave(MaxStored)
  \/ EditorToggle(MaxStored)
  \/ EditorDelete

SpecStore == InitStore /\ [][NextStore]_vars

\* C8: no rule validateCustomRule rejects is in the persisted collection,
\* and applyRules executes the action of no such rule
C8_NoInvalidRuleSavedOrApplied ==
  /\ \A i \in 1..Len(store) : RuleValid(store[i])
  /\ \A k \in 1..Len(calls) : RuleValid(calls[k].rule)

-----------------------------------------------------------------------------
(* Properties of the rule engine and the export, checked under Spec *)

\* the applyRule calls that took the split branch
SplitCalls == {k \in 1..Len(calls) : IsSplitApplication(calls[k].rule)}

\* C1: the fragments one split application emits for a transaction of
\* magnitude M >= 0 have amounts that sum to M to within 0.01
C1_SplitSumsToOriginal ==
  \A k \in SplitCalls :
    calls[k].input.amount >= 0
      => Abs(SumAmounts(calls[k].output) - calls[k].input.amount) <= Tolerance

\* C2: the export of a list produced by applyRulesToAll has no split-group
\* block whose SPL amounts fail to sum to the negation of its TRNS amount:
\* validateIIF reports no balance error on it
C2_ExportedGroupsBalance ==
  IsSome(iifResult)
    => \A e \in 1..Len(Get(iifResult).errors) :
         Get(iifResult).errors[e].kind # "should equal 0"

\* C4: every transaction parseCSV returns and every fragment applyRules
\* returns for it has amount >= 0
C4_AmountsNonNegative ==
  /\ \A i \in 1..Len(parsed) : parsed[i].amount >= 0
  /\ \A i \in 1..Len(processed) : processed[i].amount >= 0

\* C9: a matching rule whose action is malformed leaves the transaction or
\* fragment it matched unchanged in every field, split tagging included
C9_MalformedActionPassesThrough ==
  \A k \in 1..Len(calls) :
    ~ActionTaken(calls[k].rule) => calls[k].output = <<calls[k].input>>

\* The reference the engine is compared with: the enabled rules ranked by
\* priority, ties in stored order, each applied in turn to every current
\* fragment.  Split identifiers are left out of the comparison.
EnabledAt(stored) == {i \in 1..Len(stored) : stored[i].enabled}

Before(stored, i, j) ==
  \/ stored[i].priority < stored[j].priority
  \/ stored[i].priority = stored[j].priority /\ i < j

Ranked(stored) ==
  [r \in 1..Cardinality(EnabledAt(stored)) |->
     stored[CHOOSE i \in EnabledAt(stored) :
              Cardinality({j \in EnabledAt(stored) : Before(stored, j, i)}) = r - 1]]

WithoutId(txn) == [txn EXCEPT !.splitParentId = None]

ReplaceMatching(fragments, rule) ==
  Flatten([i \in 1..Len(fragments) |->
             IF matchesRule(fragments[i], rule) THEN applyRule(fragments[i], rule, 0)
             ELSE <<fragments[i]>>])

RECURSIVE RuleByRule(_, _)
RuleByRule(fragments, rules) ==
  IF rules = <<>> THEN fragments
  ELSE RuleByRule(ReplaceMatching(fragments, Head(rules)), Tail(rules))

Expected(transactions, stored) ==
  Flatten([i \in 1..Len(transactions) |->
             RuleByRule(<<Untouched(transactions[i])>>, Ranked(stored))])

SameButIds(a, b) ==
  /\ Len(a) = Len(b)
  /\ \A i \in 1..Len(a) : WithoutId(a[i]) = WithoutId(b[i])

\* C7: applyRules applies only enabled rules, a rule at a time in ascending
\* priority order; matching fragments are replaced by the action output and
\* the others pass through unchanged, so that a later rule is evaluated on the
\* fragments of an earlier split; a disabled rule does not change the result
C7_RuleAtATimeByPriority ==
  /\ \A k \in 1..Len(calls) : calls[k].rule.enabled
  /\ \A k, l \in 1..Len(calls) :
       k < l /\ calls[k].txnNo = calls[l].txnNo
         => /\ calls[k].rule.priority <= calls[l].rule.priority
            /\ \A m \in 1..Len(calls) :
                 k < m /\ m < l /\ calls[k].rule = calls[l].rule
                   => calls[m].rule = calls[k].rule
  /\ IsSome(base) => SameButIds(processed, Expected(Get(base), store))

\* C7's case: the rules are stored against their priority order, the first
\* to apply splits, and the later one is applied to a fragment of that split
C7_LaterRuleOnFragment ==
  /\ Len(store) = 2 /\ store[1].priority > store[2].priority
  /\ \E k, l \in 1..Len(calls) :
       /\ k < l /\ calls[k].txnNo = calls[l].txnNo
       /\ k \in SplitCalls
       /\ calls[k].rule = store[2] /\ calls[l].rule = store[1]
       /\ \E f \in 1..Len(calls[k].output) : calls[l].input = calls[k].output[f]

-----------------------------------------------------------------------------
(* The exporter on transactions that are not split: generateIIF followed by  *)
(* validateIIF, as handleExportIIF calls them, on every short list drawn     *)
(* from a catalog of plain transactions.                                     *)

MaxExport == 2

Account == <<"c","h","e","c","k","i","n","g">>

\* an expense, an income, a zero amount, an amount with a fraction of a
\* cent, a tab and line breaks in the description, a description longer than
\* the NAME field, a date that does not parse, and a transaction a rule was
\* applied to without splitting it
PlainCatalog == <<
  Transaction(<<"2","0","2","4","-","0","3","-","1","5">>, <<"C","a","b">>, Cents(10000),
              "expense", <<"G","r","o","c","e","r","i","e","s">>, None, Account),
  Transaction(<<"2","0","2","4","-","0","3","-","1","6">>, <<"P","a","y","r","o","l","l">>,
              Cents(4250), "income", <<>>, None, Account),
  Transaction(<<"2","0","2","4","-","0","3","-","1","7">>, <<"F","e","e">>, 0,
              "expense", Uncategorized, None, Account),
  Transaction(<<"2","0","2","4","-","1","2","-","3","1">>, <<"T","i","p">>, 123440,
              "income", Food, None, Account),
  Transaction(<<"2","0","2","4","-","0","1","-","0","2">>,
              <<"A","\t","B","\r","\n","C","\n","\t","D","\r">>, Cents(3),
              "expense", Food, None, Account),
  Transaction(<<"2","0","2","4","-","0","1","-","0","3">>,
              [i \in 1..(NameMaxLen + 2) |-> IF i % 2 = 1 THEN "x" ELSE "\t"], Cents(1),
              "expense", <<>>, None, Account),
  Transaction(<<"s","o","o","n">>, <<>>, Cents(999), "income",
              <<"E","n","t","e","r","t","a","i","n","m","e","n","t">>, None, Account),
  Untouched(Transaction(<<"2","0","2","4","-","0","3","-","1","5">>, <<"G","y","m">>,
                        Cents(5000), "expense", Home, None, Account)) >>

InitExport ==
  /\ processed \in Files(PlainCatalog, MaxExport)
  /\ store = <<>> /\ editorRules = None /\ now = 0 /\ base = None /\ calls = <<>>
  /\ iif = <<>> /\ iifResult = None /\ content = <<>> /\ vs = IIFStart /\ rows = <<>>
  /\ balErrors = None /\ catIn = <<>> /\ catOnce = None /\ catTwice = None
  /\ parsed = <<>> /\ lastOp = None
  /\ validations = <<>> /\ exportLog = None /\ isLoading = TRUE /\ financeData = <<>> /\ qbo = None

SpecExport == InitExport /\ [][ExportIIF]_vars

\* the amount field of a TRNS or SPL line, in units
AmountField(line) == PartAmount(SplitTab(line))

\* C3: for a list of n non-split transactions with amounts >= 0, the export
\* holds, after the three header lines, for the k-th transaction a TRNS line
\* whose amount is -amount (expense) or +amount (income) to the cent, an SPL
\* line with the exact negation, and ENDTRNS; validateIIF of that output
\* reports no error and transactionCount = n.
C3_PlainExportBalanced ==
  IsSome(iifResult) =>
    LET lines == SplitLines(iif)
        n == Len(processed)
    IN /\ Len(lines) = 3 + 3 * n
       /\ \A k \in 1..n :
            LET txn == processed[k]
                trns == lines[3 * k + 1]
                spl == lines[3 * k + 2]
                signed == IF txn.type = "expense" THEN -RoundCents(txn.amount)
                          ELSE RoundCents(txn.amount)
            IN /\ SplitTab(trns)[1] = <<"TRNS">>
               /\ SplitTab(spl)[1] = <<"SPL">>
               /\ lines[3 * k + 3] = <<"ENDTRNS">>
               /\ AmountField(trns) = signed
               /\ AmountField(spl) = -signed
               /\ SplitTab(spl)[7] = ToFixed2(-signed)
               /\ SplitTab(trns)[7] = ToFixed2(signed)
       /\ Get(iifResult).errors = <<>>
       /\ Get(iifResult).valid
       /\ Get(iifResult).stats.transactionCount = n

\* C3 witness: an expense and an income, one of them with tabs and line
\* breaks in its description, have been exported and validated
C3_ExportedExpenseAndIncome ==
  /\ IsSome(iifResult)
  /\ Len(processed) = 2
  /\ \E k \in 1..2 : processed[k].type = "expense" /\ processed[k].amount > 0
                     /\ Contains(processed[k].description, "\t")
  /\ \E k \in 1..2 : processed[k].type = "income" /\ processed[k].amount > 0

-----------------------------------------------------------------------------
(* validateIIF on a file read line by line: each step feeds one more line    *)
(* with its line end; vs is the state of the loop at the end of the text and *)
(* iifResult what validateIIF returns for it.                                *)

MaxLines == 4

\* a header, a TRNS row, SPL rows that do and do not offset it, ENDTRNS, an
\* account row, an unknown row and a blank line; rows end in \r\n as
\* generateIIF writes them, or in \n
LineCatalog == <<
  IIF_HEADER[1] \o <<"\r","\n">>,
  TrnsLine(1, <<"CHECK">>, <<"0","3","/","1","5","/","2","0","2","4">>,
           DEFAULT_OPTIONS.bankAccountName, <<"C","a","b">>, -Cents(100), <<>>)
    \o <<"\r","\n">>,
  SplLine(1, <<"CHECK">>, <<"0","3","/","1","5","/","2","0","2","4">>, Food,
          <<"C","a","b">>, Cents(100), <<>>) \o <<"\r","\n">>,
  <<" ">> \o SplLine(1, <<"CHECK">>, <<"0","3","/","1","5","/","2","0","2","4">>, Home,
                     <<"C","a","b">>, Cents(50), <<>>) \o <<"\n">>,
  <<"ENDTRNS", "\r", "\n">>,
  <<"ACCNT", "\t", "C", "a", "s", "h", "\n">>,
  <<"F","O","O","\n">>,
  <<"\n">> >>

\* the lines fed so far: the text ends with a line end
LinesFed(text) == IF text = <<>> THEN 0 ELSE Len(SplitLines(text)) - 1

FeedLine(line) ==
  /\ LinesFed(content) < MaxLines
  /\ content' = content \o line
  /\ vs' = IIFLoopEnd(content')
  /\ iifResult' = Some(IIFResult(vs'))
  /\ UNCHANGED <<store, editorRules, now, base, processed, calls, iif, rows, balErrors,
                 catIn, catOnce, catTwice, parsed, lastOp,
                 validations, exportLog, isLoading, financeData, qbo>>

InitIIF ==
  /\ content = <<>> /\ vs = IIFLoopEnd(<<>>) /\ iifResult = Some(validateIIF(<<>>))
  /\ store = <<>> /\ editorRules = None /\ now = 0 /\ base = None /\ processed = <<>>
  /\ calls = <<>> /\ iif = <<>> /\ rows = <<>>
  /\ balErrors = None /\ catIn = <<>> /\ catOnce = None /\ catTwice = None
  /\ parsed = <<>> /\ lastOp = None
  /\ validations = <<>> /\ exportLog = None /\ isLoading = TRUE /\ financeData = <<>> /\ qbo = None

NextIIF == \E k \in 1..Len(LineCatalog) : FeedLine(LineCatalog[k])

SpecIIF == InitIIF /\ [][NextIIF]_vars

\* the row type of a trimmed line: its first field, or "" for a blank or
\* header line
TypeOfTrimmed(line) ==
  IF line = <<>> \/ Head(line) = "!" THEN <<>> ELSE SplitTab(line)[1]
RowType(rawLine) == TypeOfTrimmed(Trim(rawLine))

\* the last line of a text that ends with a line end
LastButOne(lines) == lines[Len(lines) - 1]
LastLine(text) == LastButOne(SplitLines(text))

\* how many errors of a kind were recorded
Count(errors, kind) == Cardinality({k \in 1..Len(errors) : errors[k].kind = kind})

Structural == {"TRNS without ENDTRNS", "SPL without TRNS", "ENDTRNS without TRNS"}

\* the structural errors recorded by a step are exactly one of the given kind
Records(before, after, kind) ==
  \A other \in Structural :
    Count(after, other) = Count(before, other) + (IF other = kind THEN 1 ELSE 0)

\* what the claim says of one step: the row type fed, the loop state before
\* and after it, and the result for the text that ends there
StepAsClaimed(type, before, after, result) ==
  /\ type = <<"TRNS">> =>
       /\ after.inTransaction
       /\ Records(before.errors, after.errors,
                  IF before.inTransaction THEN "TRNS without ENDTRNS" ELSE "none")
  /\ type = <<"ENDTRNS">> =>
       /\ ~after.inTransaction
       /\ Records(before.errors, after.errors,
                  IF before.inTransaction THEN "none" ELSE "ENDTRNS without TRNS")
  /\ type = <<"SPL">> =>
       /\ after.inTransaction = before.inTransaction
       /\ Records(before.errors, after.errors,
                  IF before.inTransaction THEN "none" ELSE "SPL without TRNS")
  /\ type \notin {<<"TRNS">>, <<"ENDTRNS">>, <<"SPL">>} =>
       /\ after.inTransaction = before.inTransaction
       /\ Records(before.errors, after.errors, "none")
  /\ Count(result.errors, "File ends without ENDTRNS")
       = (IF after.inTransaction THEN 1 ELSE 0)
  /\ \A kind \in Structural : Count(result.errors, kind) = Count(after.errors, kind)
  /\ result.valid =>
       \A kind \in Structural \cup {"File ends without ENDTRNS"} :
         Count(result.errors, kind) = 0

\* C5: over the data lines validateIIF is a machine with the states idle and
\* inTransaction: TRNS while inTransaction records an error and stays
\* inTransaction; ENDTRNS while idle records an error and stays idle; SPL
\* while idle records an error; the other steps record no structural error,
\* TRNS opening and ENDTRNS closing the transaction; the end of the input
\* records an error exactly when inTransaction; and the result is valid only
\* if no error was recorded.
C5_TwoStateMachine ==
  [][content' # content =>
       StepAsClaimed(RowType(LastLine(content')), vs, vs', Get(iifResult'))]_vars

\* C5 witness: SPL and ENDTRNS were seen while idle, TRNS while
\* inTransaction, and the input ends inTransaction: each of the four errors
\* was recorded
C5_EveryStructuralError ==
  /\ IsSome(iifResult)
  /\ vs.inTransaction
  /\ \A kind \in Structural \cup {"File ends without ENDTRNS"} :
       Count(Get(iifResult).errors, kind) >= 1
  /\ ~Get(iifResult).valid

-----------------------------------------------------------------------------
(* validateBalanceConsistency on the rows of a statement, newest first       *)

MaxRows == 7

BalanceColumns ==
  [deposit |-> HDeposit, withdrawal |-> HWithdrawal, balance |-> HBalance, date |-> HDate]

\* a row with every column of BalanceColumns
BalanceRow(date, deposit, withdrawal, balance) ==
  [h \in {HDate, HDeposit, HWithdrawal, HBalance} |->
     CASE h = HDate -> date
       [] h = HDeposit -> deposit
       [] h = HWithdrawal -> withdrawal
       [] OTHER -> balance]

\* a row without movement at balance 100.00; a withdrawal of 10.00 down to
\* $90.00, with no deposit cell and an empty date; a deposit of half a cent
\* that the balance 100.00 does not show
BalanceCatalog == {
  BalanceRow(<<"2","0","2","4","-","0","3","-","1","5">>, <<>>, <<>>,
             <<"1","0","0",".","0","0">>),
  [h \in {HDate, HWithdrawal, HBalance} |->
     CASE h = HDate -> <<>>
       [] h = HWithdrawal -> <<"1","0",".","0","0">>
       [] OTHER -> <<"$","9","0",".","0","0">>],
  BalanceRow(<<"2","0","2","4","-","0","3","-","1","6">>, <<"0",".","0","0","5">>,
             <<"0">>, <<"1","0","0",".","0","0">>) }

ValidateBalance ==
  /\ balErrors = None
  /\ balErrors' = Some(validateBalanceConsistency(rows, StatementName, BalanceColumns))
  /\ UNCHANGED <<store, editorRules, now, base, processed, calls, iif, iifResult,
                 content, vs, rows, catIn, catOnce, catTwice, parsed, lastOp,
                 validations, exportLog, isLoading, financeData, qbo>>

InitBalance ==
  /\ rows \in UNION {[1..k -> BalanceCatalog] : k \in 0..MaxRows}
  /\ balErrors = None
  /\ store = <<>> /\ editorRules = None /\ now = 0 /\ base = None /\ processed = <<>>
  /\ calls = <<>> /\ iif = <<>> /\ iifResult = None /\ content = <<>> /\ vs = IIFStart
  /\ catIn = <<>> /\ catOnce = None /\ catTwice = None /\ parsed = <<>> /\ lastOp = None
  /\ validations = <<>> /\ exportLog = None /\ isLoading = TRUE /\ financeData = <<>> /\ qbo = None

SpecBalance == InitBalance /\ [][ValidateBalance]_vars

\* the balance, withdrawal and deposit of the row at 0-based index i
BalanceAt(i) == parseNumeric(Cell(rows[i + 1], HBalance))
WithdrawalAt(i) == parseNumeric(Cell(rows[i + 1], HWithdrawal))
DepositAt(i) == parseNumeric(Cell(rows[i + 1], HDeposit))

\* the balance the row at index i should show
ExpectedAt(i) == BalanceAt(i + 1) - WithdrawalAt(i) + DepositAt(i)

\* the indices whose balance is off by more than 0.01
Violations ==
  {i \in 0..(Len(rows) - 2) : Abs(BalanceAt(i) - ExpectedAt(i)) > Tolerance}

PerRow(errors) == {k \in 1..Len(errors) : errors[k].kind = "Balance mismatch"}
Summaries(errors) == {k \in 1..Len(errors) : errors[k].kind = "more balance errors"}

\* the errors are as the claim says for v violations
BalanceAsClaimed(errors, v) ==
  /\ Cardinality(PerRow(errors)) = Min(v, 5)
  /\ \A k \in PerRow(errors) :
       /\ errors[k].row - 2 \in Violations
       /\ errors[k].expected = ExpectedAt(errors[k].row - 2)
       /\ errors[k].actual = BalanceAt(errors[k].row - 2)
  /\ \A k, l \in PerRow(errors) : k # l => errors[k].row # errors[l].row
  /\ Cardinality(Summaries(errors)) = (IF v > 5 THEN 1 ELSE 0)
  /\ \A k \in Summaries(errors) : errors[k].count = v - 5
  /\ Len(errors) = Cardinality(PerRow(errors)) + Cardinality(Summaries(errors))

\* C6: validateBalanceConsistency returns no errors for fewer than 2 rows;
\* otherwise, with v the number of indices i in 0..n-2 whose balance differs
\* from balance[i+1] - withdrawal[i] + deposit[i] by more than 0.01, exactly
\* min(v,5) per-row errors, each with row = i+2 of such an index and its
\* expected/actual pair, plus exactly one summary stating v-5 when v > 5.
C6_BalanceErrorsCapped ==
  IsSome(balErrors) =>
    IF Len(rows) < 2 THEN Get(balErrors) = <<>>
    ELSE BalanceAsClaimed(Get(balErrors), Cardinality(Violations))

\* C6 witness: more than five rows are off, so that five per-row errors and
\* the summary are returned
C6_MoreThanFiveOff ==
  /\ IsSome(balErrors)
  /\ Cardinality(Violations) > 5
  /\ Summaries(Get(balErrors)) # {}

-----------------------------------------------------------------------------
(* The categorizer applied once and twice to a list of transactions          *)

MaxCat == 2

\* incomes and expenses without a category or with the sentinel, whose
\* descriptions match an income rule, an expense rule or no rule, and
\* transactions that already have a category
CatCatalog == <<
  Transaction(<<"2","0","2","4","-","0","3","-","1","5">>,
              <<"P","A","Y","R","O","L","L"," ","A","C","M","E">>, Cents(10000),
              "income", <<>>, None, Account),
  Transaction(<<"2","0","2","4","-","0","3","-","1","5">>,
              <<"P","a","y","r","o","l","l"," ","f","e","e">>, Cents(100),
              "expense", <<>>, None, Account),
  Transaction(<<"2","0","2","4","-","0","3","-","1","6">>,
              <<"I","n","s","u","r","a","n","c","e">>, Cents(500),
              "income", Uncategorized, None, Account),
  Transaction(<<"2","0","2","4","-","0","3","-","1","6">>,
              <<"C","a","s","h","b","a","c","k"," ","f","e","e">>, Cents(1),
              "expense", Uncategorized, None, Account),
  Transaction(<<"2","0","2","4","-","0","3","-","1","7">>, <<"z","z","z">>, Cents(2),
              "expense", <<>>, None, Account),
  Transaction(<<"2","0","2","4","-","0","3","-","1","7">>,
              <<"P","a","y","r","o","l","l">>, Cents(3), "expense", Food, None, Account),
  Transaction(<<"2","0","2","4","-","0","3","-","1","8">>, <<"B","o","n","u","s">>,
              Cents(4), "income", Other, None, Account),
  Transaction(<<"2","0","2","4","-","0","3","-","1","8">>, <<>>, Cents(5),
              "income", Uncategorized, None, Account) >>

Categorize ==
  /\ catOnce = None
  /\ catOnce' = Some(categorizeAllTransactions(catIn))
  /\ catTwice' = Some(categorizeAllTransactions(Get(catOnce')))
  /\ UNCHANGED <<store, editorRules, now, base, processed, calls, iif, iifResult,
                 content, vs, rows, balErrors, catIn, parsed, lastOp,
                 validations, exportLog, isLoading, financeData, qbo>>

InitCat ==
  /\ catIn \in Files(CatCatalog, MaxCat)
  /\ catOnce = None /\ catTwice = None
  /\ store = <<>> /\ editorRules = None /\ now = 0 /\ base = None /\ processed = <<>>
  /\ calls = <<>> /\ iif = <<>> /\ iifResult = None /\ content = <<>> /\ vs = IIFStart
  /\ rows = <<>> /\ balErrors = None /\ parsed = <<>> /\ lastOp = None
  /\ validations = <<>> /\ exportLog = None /\ isLoading = TRUE /\ financeData = <<>> /\ qbo = None

SpecCat == InitCat /\ [][Categorize]_vars

\* a category the categorizer keeps: non-empty and not the sentinel
Categorized(txn) == txn.category # <<>> /\ txn.category # Uncategorized

\* C10: the categorizer returns the category a transaction already has
\* whenever it is non-empty and not 'Uncategorized', and applying
\* categorizeAllTransactions twice gives the same list as applying it once.
C10_CategorizerIdempotent ==
  IsSome(catOnce) =>
    /\ Len(Get(catOnce)) = Len(catIn)
    /\ \A i \in 1..Len(catIn) :
         Categorized(catIn[i]) => Get(catOnce)[i] = catIn[i]
    /\ \A i \in 1..Len(catIn) : Categorized(Get(catOnce)[i])
    /\ catTwice = catOnce

\* C10 witness: the categorizer ran on a transaction that had a category and
\* on one that had none and was given one
C10_KeptAndAssigned ==
  /\ IsSome(catOnce)
  /\ \E i \in 1..Len(catIn) : Categorized(catIn[i])
  /\ \E i \in 1..Len(catIn) :
       ~Categorized(catIn[i]) /\ Get(catOnce)[i].category \notin {Other, OtherIncome}

-----------------------------------------------------------------------------
(* parseCSV on a statement with a single amount column, next to withdrawal   *)
(* and deposit columns                                                       *)

MaxParse == 2

AmountHeaders == <<HDate, HDescription, HAmount, HWithdrawal, HDeposit>>

AmountRow(amount, withdrawal, deposit) ==
  [h \in {HDate, HDescription, HAmount, HWithdrawal, HDeposit} |->
     CASE h = HDate -> <<"2","0","2","4","-","0","3","-","1","5">>
       [] h = HDescription -> <<"C","a","b">>
       [] h = HAmount -> amount
       [] h = HWithdrawal -> withdrawal
       [] OTHER -> deposit]

\* a negative amount next to a deposit, a parenthesized amount, a positive
\* amount with currency formatting next to a withdrawal, an explicit plus
\* sign, a positive amount written with an exponent, an empty amount next to
\* a withdrawal, and a minus sign before the currency sign
AmountCatalog == <<
  AmountRow(<<"-","1","0","0",".","0","0">>, <<>>, <<"5",".","0","0">>),
  AmountRow(<<"(","5","0",".","0","0",")">>, <<>>, <<>>),
  AmountRow(<<"$","1",",","2","3","4",".","5","6">>, <<"9",".","0","0">>, <<>>),
  AmountRow(<<"+","5",".","0","0">>, <<>>, <<>>),
  AmountRow(<<"2",".","5","e","-","1">>, <<>>, <<>>),
  AmountRow(<<>>, <<"3",".","0","0">>, <<>>),
  AmountRow(<<"-","$","7",".","0","0">>, <<>>, <<>>) >>

ParseFile ==
  /\ lastOp = None
  /\ parsed' = parseCSV(AmountHeaders, rows, StatementName).transactions
  /\ lastOp' = Some("parseCSV")
  /\ UNCHANGED <<store, editorRules, now, base, processed, calls, iif, iifResult,
                 content, vs, rows, balErrors, catIn, catOnce, catTwice,
                 validations, exportLog, isLoading, financeData, qbo>>

InitParse ==
  /\ rows \in Files(AmountCatalog, MaxParse)
  /\ parsed = <<>> /\ lastOp = None
  /\ validations = <<>> /\ exportLog = None /\ isLoading = TRUE /\ financeData = <<>> /\ qbo = None
  /\ store = <<>> /\ editorRules = None /\ now = 0 /\ base = None /\ processed = <<>>
  /\ calls = <<>> /\ iif = <<>> /\ iifResult = None /\ content = <<>> /\ vs = IIFStart
  /\ balErrors = None /\ catIn = <<>> /\ catOnce = None /\ catTwice = None

SpecParse == InitParse /\ [][ParseFile]_vars

\* the raw number of an amount cell, with its sign
RawNumber(cell) == OrZero(ParseFloat(StripCurrency(cell)))

\* what the claim says of a row: an expense when the raw number is negative
\* or the cell is parenthesized, else an income, of the absolute value
Classified(row) ==
  [type |-> IF RawNumber(row[HAmount]) < 0 \/ Contains(row[HAmount], "(")
            THEN "expense" ELSE "income",
   amount |-> Abs(RawNumber(row[HAmount]))]

\* the rows that give a transaction: those whose raw number is not zero
RECURSIVE Kept(_)
Kept(rws) ==
  IF rws = <<>> THEN <<>>
  ELSE (IF RawNumber(Head(rws)[HAmount]) # 0 THEN <<Head(rws)>> ELSE <<>>) \o Kept(Tail(rws))

\* C11: with an amount column resolved, every row gives a transaction that
\* is an expense when its raw amount is negative or parenthesized and an
\* income when it is positive, with the absolute value as amount; the
\* withdrawal and deposit cells play no part.
C11_SignDecidesType ==
  lastOp = Some("parseCSV") =>
    /\ Len(parsed) = Len(Kept(rows))
    /\ \A k \in 1..Len(parsed) :
         /\ parsed[k].type = Classified(Kept(rows)[k]).type
         /\ parsed[k].amount = Classified(Kept(rows)[k]).amount

-----------------------------------------------------------------------------
(* The dashboard loading several uploaded files *)

MaxFiles == 3

CsvFile(name, headers, rws) == [name |-> name, headers |-> headers, rows |-> rws]

BalanceHeaders == <<HDate, HDescription, HWithdrawal, HDeposit, HBalance>>

LedgerRow(date, description, withdrawal, deposit, balance) ==
  (HDate :> date) @@ (HDescription :> description) @@ (HWithdrawal :> withdrawal)
  @@ (HDeposit :> deposit) @@ (HBalance :> balance)

\* a sound statement; a statement whose expense has a date that is no date;
\* the same with an income; a file without content; a ledger whose balances
\* do not follow from its movements
FileCatalog == <<
  CsvFile(StatementName, StatementHeaders,
          <<StatementRow(<<"2","0","2","4","-","0","3","-","1","5">>, <<"C","a","b">>, <<"-","1","0","0",".","0","0">>, <<>>)>>),
  CsvFile(<<"v","i","s","a",".","c","s","v">>, StatementHeaders,
          <<StatementRow(<<"s","o","o","n">>, <<"G","y","m">>, <<"-","5",".","0","0">>, <<>>),
            StatementRow(<<"2","0","2","4","-","0","3","-","1","6">>, <<"P","a","y">>, <<"7",".","0","0">>, <<>>)>>),
  CsvFile(<<"c","c",".","c","s","v">>, StatementHeaders,
          <<StatementRow(<<"s","o","o","n">>, <<"P","a","y">>, <<"5",".","0","0">>, <<>>)>>),
  CsvFile(<<"e","m","p","t","y",".","c","s","v">>, <<>>, <<>>),
  CsvFile(<<"s","a","v","i","n","g","s",".","c","s","v">>, BalanceHeaders,
          <<LedgerRow(<<"2","0","2","4","-","0","3","-","1","6">>, <<"F","e","e">>, <<"1","0",".","0","0">>, <<>>, <<"5","0",".","0","0">>),
            LedgerRow(<<"2","0","2","4","-","0","3","-","1","5">>, <<"P","a","y">>, <<>>, <<"2","0",".","0","0">>, <<"1","0","0",".","0","0">>)>>) >>

InitLoad == store = <<>> /\ Idle

NextLoad ==
  \E files \in Files(FileCatalog, MaxFiles), ticks \in [1..MaxTicks -> BOOLEAN] :
    LoadFiles(files, ticks)

SpecLoad == InitLoad /\ [][NextLoad]_vars

\* a file the claim calls bad: it fails validation, or a row of it has a
\* date that cannot be parsed
BadFile(file) ==
  \/ ~validateParsedCSV(file.rows, file.headers, file.name,
                        [validateBalance |-> Some(TRUE), requiredColumns |-> None]).valid
  \/ \E i \in 1..Len(file.rows) : ~IsSome(GetTime(file.rows[i][HDate]))

\* the data on the page has a transaction of this date, description and amount
Shown(txn) ==
  /\ IsSome(base)
  /\ \E k \in 1..Len(Get(base)) :
       /\ Get(base)[k].date = txn.date
       /\ Get(base)[k].description = txn.description
       /\ Get(base)[k].amount = txn.amount
       /\ Get(base)[k].type = txn.type

\* every transaction of the file is on the page
FileShown(transactions) == \A k \in 1..Len(transactions) : Shown(transactions[k])

\* C12: once the dashboard has loaded, every file has its validation entry
\* under its own name, and every file that is not bad has its transactions
\* in the data of the page, whatever the other files are.
C12_BadFileIsNotFatal ==
  ~isLoading =>
    /\ Len(validations) = Len(financeData)
    /\ \A i \in 1..Len(financeData) :
         /\ validations[i].filename = financeData[i].name
         /\ ~BadFile(financeData[i]) =>
              /\ IsSome(base)
              /\ FileShown(parseCSV(financeData[i].headers, financeData[i].rows,
                                    financeData[i].name).transactions)

-----------------------------------------------------------------------------
(* The export of a list that rules have been applied to: generateIIF and     *)
(* validateIIF on whole transactions and split fragments with free text      *)

MaxShape == 3

Cab == Transaction(<<"2","0","2","4","-","0","3","-","1","5">>, <<"C","a","b">>, Cents(10000), "expense",
                   <<"G","r","o","c","e","r","i","e","s">>, None, Account)
Pay == Transaction(<<"2","0","2","4","-","0","3","-","1","6">>, <<"P","a","y">>, Cents(4250), "income", <<>>, None, Account)

\* a transaction left whole by the rules; descriptions with a tab and a line
\* feed, with a carriage return and line feed, and with a carriage return
\* alone; the two fragments of a split, their memos holding a tab and a line
\* break; the only fragment of a split; a fragment of a split whose other
\* fragments are not in the list, without memo
ShapeCatalog == <<
  Untouched(Cab),
  [Pay EXCEPT !.description = <<"P","a","y","\t","d","a","y","\n","n","o","w">>],
  [Cab EXCEPT !.description = <<"a","\r","\n","b">>],
  [Cab EXCEPT !.description = <<"a","\r","b">>],
  SplitFragment(Cab, Cents(6000), Food, 1, 0, <<"h","a","l","f","\t","o","n","e">>),
  SplitFragment(Cab, Cents(4000), Home, 1, 1, <<"t","w","o","\r","\n","l","i","n","e","s">>),
  SplitFragment(Pay, Cents(4250), Fun, 2, 0, AutoMemo(0, 1)),
  SplitFragment(Cab, Cents(3000), Fun, 3, 0, <<>>) >>

InitShape ==
  /\ processed \in Files(ShapeCatalog, MaxShape)
  /\ store = <<>> /\ editorRules = None /\ now = 0 /\ base = None /\ calls = <<>>
  /\ iif = <<>> /\ iifResult = None /\ content = <<>> /\ vs = IIFStart /\ rows = <<>>
  /\ balErrors = None /\ catIn = <<>> /\ catOnce = None /\ catTwice = None
  /\ parsed = <<>> /\ lastOp = None
  /\ validations = <<>> /\ exportLog = None /\ isLoading = TRUE /\ financeData = <<>> /\ qbo = None

SpecShape == InitShape /\ [][ExportIIF]_vars

-----------------------------------------------------------------------------
(* The export action *)

\* the position of a step in what handleExportIIF did, 0 when it is not there
StepAt(log, step) ==
  IF \E k \in 1..Len(log) : log[k] = step
  THEN CHOOSE k \in 1..Len(log) : log[k] = step
  ELSE 0

\* what the claim says of one export: list, handler log and recorded result
ExportAsClaimed(list, log, recorded) ==
  /\ StepAt(log, "downloadIIF") > 0
       <=> /\ list # <<>>
           /\ \/ IsSome(recorded) /\ Get(recorded).valid
              \/ StepAt(log, "confirm: OK") > 0
  /\ list # <<>> =>
       /\ recorded = Some(validateIIF(generateIIF(list, DEFAULT_OPTIONS)))
       /\ StepAt(log, "setIifValidation") = 1
       /\ StepAt(log, "confirm: Cancel") > 0 => ~Get(recorded).valid
       /\ StepAt(log, "confirm: OK") > 0 => ~Get(recorded).valid

\* C13: an export downloads exactly when the list is not empty and the text
\* is valid or the user confirms; when there are errors and the user
\* declines nothing is downloaded; the validation result is recorded first.
C13_DownloadIffValidOrConfirmed ==
  [][exportLog' # exportLog => ExportAsClaimed(processed, Get(exportLog'), iifResult')]_vars

\* C13: an export of a text with errors that the user declined
C13_DeclinedExport ==
  /\ IsSome(iifResult) /\ ~Get(iifResult).valid
  /\ exportLog = Some(<<"setIifValidation", "confirm: Cancel">>)

-----------------------------------------------------------------------------
(* validateParsedCSV with required columns, next to the parser's column      *)
(* resolution                                                                *)

MaxChecked == 3

CanonicalColumns == <<"date", "description", "deposit", "withdrawal", "balance", "category">>

\* the rows of a file: every row gives each header its cell
RowsOf(headers, cells) ==
  [r \in 1..Len(cells) |->
     [h \in {headers[k] : k \in 1..Len(headers)} |->
        cells[r][CHOOSE k \in 1..Len(headers) : headers[k] = h]]]

\* a ledger with every canonical column whose balances follow; a statement
\* with the parser's spellings 'Posting Date' and 'Transaction Description';
\* a ledger without description whose balances do not follow; a file without
\* rows; a file whose rows have no columns; a ledger whose headers are in
\* capitals or padded with blanks
CheckedCatalog == <<
  CsvFile(<<"l","e","d","g","e","r",".","c","s","v">>, BalanceHeaders \o <<HCategory>>,
          RowsOf(BalanceHeaders \o <<HCategory>>,
                 <<<<<<"2","0","2","4","-","0","3","-","1","6">>, <<"F","e","e">>, <<"1","0",".","0","0">>, <<>>, <<"9","0",".","0","0">>, <<>>>>,
                   <<<<"2","0","2","4","-","0","3","-","1","5">>, <<"P","a","y">>, <<>>, <<"2","0",".","0","0">>, <<"1","0","0",".","0","0">>, <<>>>>>>)),
  CsvFile(<<"b","a","n","k",".","c","s","v">>, <<<<"P","o","s","t","i","n","g"," ","D","a","t","e">>, <<"T","r","a","n","s","a","c","t","i","o","n"," ","D","e","s","c","r","i","p","t","i","o","n">>, HAmount>>,
          RowsOf(<<<<"P","o","s","t","i","n","g"," ","D","a","t","e">>, <<"T","r","a","n","s","a","c","t","i","o","n"," ","D","e","s","c","r","i","p","t","i","o","n">>, HAmount>>,
                 <<<<<<"2","0","2","4","-","0","3","-","1","6">>, <<"F","e","e">>, <<"-","1","0",".","0","0">>>>>>)),
  CsvFile(<<"s","h","o","r","t",".","c","s","v">>, <<HDate, HWithdrawal, HDeposit, HBalance>>,
          RowsOf(<<HDate, HWithdrawal, HDeposit, HBalance>>,
                 <<<<<<"2","0","2","4","-","0","3","-","1","6">>, <<"1","0",".","0","0">>, <<>>, <<"5","0",".","0","0">>>>,
                   <<<<"2","0","2","4","-","0","3","-","1","5">>, <<>>, <<"2","0",".","0","0">>, <<"1","0","0",".","0","0">>>>>>)),
  CsvFile(<<"e","m","p","t","y",".","c","s","v">>, <<>>, <<>>),
  CsvFile(<<"b","l","a","n","k",".","c","s","v">>, <<>>, <<<<>>>>),
  CsvFile(<<"c","a","p","s",".","c","s","v">>, <<<<" ","d","a","t","e"," ">>, <<"M","E","M","O">>, <<"D","e","b","i","t">>, <<"C","r","e","d","i","t">>, <<"R","u","n","n","i","n","g"," ","B","a","l","a","n","c","e">>, <<"T","y","p","e">>>>,
          RowsOf(<<<<" ","d","a","t","e"," ">>, <<"M","E","M","O">>, <<"D","e","b","i","t">>, <<"C","r","e","d","i","t">>, <<"R","u","n","n","i","n","g"," ","B","a","l","a","n","c","e">>, <<"T","y","p","e">>>>,
                 <<<<<<"2","0","2","4","-","0","3","-","1","6">>, <<"F","e","e">>, <<"1","0",".","0","0">>, <<>>, <<"9","0",".","0","0">>, <<>>>>>>)) >>

\* validateParsedCSV of every file, with the canonical columns required
ValidateFiles ==
  /\ lastOp = None
  /\ validations' =
       [i \in 1..Len(financeData) |->
          [filename |-> financeData[i].name,
           result |-> validateParsedCSV(financeData[i].rows, financeData[i].headers,
                                        financeData[i].name,
                                        [validateBalance |-> Some(TRUE),
                                         requiredColumns |-> Some(CanonicalColumns)])]]
  /\ lastOp' = Some("validateParsedCSV")
  /\ UNCHANGED <<store, editorRules, now, base, processed, calls, iif, iifResult,
                 content, vs, rows, balErrors, catIn, catOnce, catTwice, parsed,
                 exportLog, isLoading, financeData, qbo>>

InitChecked ==
  /\ financeData \in Files(CheckedCatalog, MaxChecked)
  /\ store = <<>> /\ editorRules = None /\ now = 0 /\ base = None /\ processed = <<>>
  /\ calls = <<>> /\ iif = <<>> /\ iifResult = None /\ content = <<>> /\ vs = IIFStart
  /\ rows = <<>> /\ balErrors = None /\ catIn = <<>> /\ catOnce = None /\ catTwice = None
  /\ parsed = <<>> /\ lastOp = None
  /\ validations = <<>> /\ exportLog = None /\ isLoading = TRUE /\ qbo = None

SpecChecked == InitChecked /\ [][ValidateFiles]_vars

\* the errors of a kind in a result
OfKind(errors, kinds) == {k \in 1..Len(errors) : errors[k].kind \in kinds}

\* the columns the result lists as missing
ListedMissing(errors) ==
  UNION {{errors[k].missing[m] : m \in 1..Len(errors[k].missing)} :
           k \in OfKind(errors, {"Missing required columns"})}

\* the parser resolves no header for the column
Unresolved(headers, col) == findColumn(headers, COLUMN_MAPPINGS[col]) = None

\* C14: for a file that passes the basic parsing check, the canonical columns
\* the required-columns check lists as missing are exactly those for which
\* findColumn over COLUMN_MAPPINGS resolves no header.
C14_MissingIffUnresolved ==
  lastOp = Some("validateParsedCSV") =>
    \A i \in 1..Len(financeData) :
      OfKind(validations[i].result.errors, {"CSV file is empty", "CSV has no columns"}) = {}
      => \A c \in 1..Len(CanonicalColumns) :
           CanonicalColumns[c] \in ListedMissing(validations[i].result.errors)
             <=> Unresolved(financeData[i].headers, CanonicalColumns[c])

\* a structural parse error: the file is empty, has no columns, or misses a
\* required column
StructuralKinds == {"CSV file is empty", "CSV has no columns", "Missing required columns"}

\* what validateBalanceConsistency reports
BalanceKinds == {"Balance mismatch", "more balance errors"}

\* C15: a result with a structural parse error is not valid and holds no
\* balance error: the validation of the file stopped at the structural error.
C15_StructuralErrorHalts ==
  lastOp = Some("validateParsedCSV") =>
    \A i \in 1..Len(financeData) :
      OfKind(validations[i].result.errors, StructuralKinds) # {}
      => /\ ~validations[i].result.valid
         /\ OfKind(validations[i].result.errors, BalanceKinds) = {}

-----------------------------------------------------------------------------
(* The shape of the export text *)

\* a text with every CR that no LF follows written as LF
Breaks(text) ==
  [i \in 1..Len(text) |->
     IF text[i] = "\r" /\ ~(i < Len(text) /\ text[i + 1] = "\n") THEN "\n" ELSE text[i]]

\* the lines of a text, a line ending at a CR LF, an LF or a CR
BreakLines(text) == SplitLines(Breaks(text))

\* a line has the number of fields of its record type
FieldsAsClaimed(parts) ==
  /\ parts[1] = <<"TRNS">> => Len(parts) = 11
  /\ parts[1] = <<"SPL">> => Len(parts) = 12

\* C16: whatever the descriptions and split memos hold (tabs, carriage
\* returns, line feeds), the export text has one line per record generateIIF
\* pushed, every TRNS line has 11 tab-separated fields and every SPL line 12.
C16_FreeTextKeepsShape ==
  IsSome(iifResult) =>
    /\ Len(BreakLines(iif)) = Len(IIFLines(processed, DEFAULT_OPTIONS))
    /\ \A k \in 1..Len(BreakLines(iif)) : FieldsAsClaimed(SplitTab(BreakLines(iif)[k]))

-----------------------------------------------------------------------------
(* The balance check and the statistics of validateIIF, on the text fed      *)
(* line by line                                                              *)

\* the lines of a text that ends with a line end
FedLines(lines) == SubSeq(lines, 1, Len(lines) - 1)

\* the data lines of a row type among the first n lines
DataLines(lines, n, type) == {k \in 1..n : RowType(lines[k]) = <<type>>}

\* the line of the last TRNS row before line n, 0 when there is none
LastTrns(lines, n) ==
  IF DataLines(lines, n - 1, "TRNS") = {} THEN 0
  ELSE CHOOSE t \in DataLines(lines, n - 1, "TRNS") :
         \A u \in DataLines(lines, n - 1, "TRNS") : u <= t

\* line n closes a block: there is a TRNS row before it with no ENDTRNS row
\* in between
ClosesBlock(lines, n, t) ==
  /\ RowType(lines[n]) = <<"ENDTRNS">>
  /\ t > 0
  /\ \A k \in (t + 1)..(n - 1) : RowType(lines[k]) # <<"ENDTRNS">>

RECURSIVE SumOfAmounts(_, _)
SumOfAmounts(lines, ks) ==
  IF ks = {} THEN 0
  ELSE LET k == CHOOSE x \in ks : TRUE
       IN AmountField(Trim(lines[k])) + SumOfAmounts(lines, ks \ {k})

\* the TRNS amount of the block opened at line t and closed at line n, plus
\* the amounts of the SPL rows between the two
BlockSum(lines, n, t) ==
  AmountField(Trim(lines[t]))
  + SumOfAmounts(lines, {k \in DataLines(lines, n, "SPL") : k > t})

\* what the claim says of the step that fed the last of the lines
ClosedAsClaimed(lines, t, before, after) ==
  ClosesBlock(lines, Len(lines), t) =>
    Count(after, "should equal 0") - Count(before, "should equal 0")
      = (IF Abs(BlockSum(lines, Len(lines), t)) > Tolerance THEN 1 ELSE 0)

LastBlockAsClaimed(lines, before, after) ==
  ClosedAsClaimed(lines, LastTrns(lines, Len(lines)), before, after)

\* C17: an ENDTRNS row that closes an open block records a balance error
\* exactly when the TRNS amount of the block plus the amounts of the SPL rows
\* inside the block is more than 0.01 away from zero; the SPL rows before the
\* TRNS row of the block do not count.
C17_BalanceErrorIffOff ==
  [][content' # content =>
       LastBlockAsClaimed(FedLines(SplitLines(content')), vs.errors, vs'.errors)]_vars

\* C17: an SPL row seen while idle, then a block that balances and is closed
\* without a balance error
C17_IdleSplitThenBalancedBlock ==
  /\ Count(vs.errors, "SPL without TRNS") = 1
  /\ Count(vs.errors, "should equal 0") = 0
  /\ vs.transactionCount = 1 /\ vs.splitCount = 2
  /\ ~vs.inTransaction
  /\ LinesFed(content) = 4
  /\ RowType(LastLine(content)) = <<"ENDTRNS">>

\* C18: whatever the errors, transactionCount is the number of TRNS data
\* lines and splitCount the number of SPL data lines of the text.
C18_StatsCountEveryLine ==
  IsSome(iifResult) =>
    /\ Get(iifResult).stats.transactionCount
         = Cardinality(DataLines(SplitLines(content), Len(SplitLines(content)), "TRNS"))
    /\ Get(iifResult).stats.splitCount
         = Cardinality(DataLines(SplitLines(content), Len(SplitLines(content)), "SPL"))

\* C18: a TRNS row that opened while a block was open and an SPL row seen
\* while idle, both counted
C18_CountedDespiteErrors ==
  /\ IsSome(iifResult)
  /\ Count(Get(iifResult).errors, "TRNS without ENDTRNS") = 1
  /\ Count(Get(iifResult).errors, "SPL without TRNS") = 1
  /\ Get(iifResult).stats.transactionCount = 2
  /\ Get(iifResult).stats.splitCount >= 1

-----------------------------------------------------------------------------
(* The blocks of the export text *)

\* the transactions that are not split fragments, and the parent ids of
\* those that are
NonSplit(transactions) ==
  {k \in 1..Len(transactions) : transactions[k].isSplit # Some(TRUE)}
ParentIds(transactions) ==
  {transactions[k].splitParentId : k \in (1..Len(transactions)) \ NonSplit(transactions)}

\* the row types of the lines after the three header lines
TypesAfterHeader(lines) == [k \in 1..(Len(lines) - 3) |-> SplitTab(lines[k + 3])[1]]

\* TRNS, one or more SPL, ENDTRNS, any number of times
WellFormed(types) ==
  /\ \A k \in 1..Len(types) :
       /\ types[k] \in {<<"TRNS">>, <<"SPL">>, <<"ENDTRNS">>}
       /\ types[k] = <<"TRNS">> => k < Len(types) /\ types[k + 1] = <<"SPL">>
       /\ types[k] = <<"SPL">> =>
            k < Len(types) /\ types[k + 1] \in {<<"SPL">>, <<"ENDTRNS">>}
       /\ types[k] = <<"ENDTRNS">> => k = Len(types) \/ types[k + 1] = <<"TRNS">>
  /\ types # <<>> => types[1] = <<"TRNS">>

\* the TRNS and SPL lines of the b-th block carry the id b
IdsInOrder(lines, types) ==
  \A k \in 1..Len(types) :
    types[k] # <<"ENDTRNS">> =>
      SplitTab(lines[k + 3])[2]
        = NatToText(Cardinality({j \in 1..k : types[j] = <<"TRNS">>}))

\* what the claim says of the lines of an export, n being the number of
\* logical transactions
BlocksAsClaimed(lines, types, n, errors) ==
  /\ SubSeq(lines, 1, 3) = IIF_HEADER
  /\ WellFormed(types)
  /\ Cardinality({k \in 1..Len(types) : types[k] = <<"TRNS">>}) = n
  /\ IdsInOrder(lines, types)
  /\ \A kind \in Structural \cup {"File ends without ENDTRNS"} : Count(errors, kind) = 0

ExportAsBlocks(lines, transactions, errors) ==
  BlocksAsClaimed(lines, TypesAfterHeader(lines),
                  Cardinality(NonSplit(transactions)) + Cardinality(ParentIds(transactions)),
                  errors)

\* C19: the export is the three header lines and then one block per logical
\* transaction (a transaction that is no split fragment, or the fragments of
\* one parent id): each block is a TRNS line, one or more SPL lines and
\* ENDTRNS, the blocks carry the ids 1..n in order, and validateIIF reports
\* no open/close error on it.
C19_OneBlockPerLogicalTransaction ==
  IsSome(iifResult) => ExportAsBlocks(SplitLines(iif), processed, Get(iifResult).errors)

\* C19: the two fragments of one split with a whole transaction between
\* them, exported as two blocks
C19_GroupAroundWhole ==
  /\ IsSome(iifResult)
  /\ Len(processed) = 3
  /\ NonSplit(processed) = {2}
  /\ Cardinality(ParentIds(processed)) = 1
  /\ processed[1] # processed[3]
  /\ Get(iifResult).stats.transactionCount = 2
  /\ Get(iifResult).stats.splitCount = 3

-----------------------------------------------------------------------------
(* The split walk: handleRulesChange with one split rule in the store and    *)
(* one transaction on the page                                               *)

MaxAllocs == 3

\* a fixed amount of 80.00, half, three tenths, and what remains
AllocationCatalog ==
  <<FixedAmount(Food, Cents(8000)), Percentage(Home, 50), Percentage(Fun, 30),
    Remainder(Taxi)>>

\* a rule that splits every transaction whose description has an A
SplitRule(splits) ==
  CustomRule(<<0, 1>>, <<"s","p","l","i","t">>, TRUE, 10, <<DescriptionHasA>>, "AND",
             SplitAction(Some(splits)))

\* an expense of 100.00 and an income of 0.03
SplitInputs ==
  {Transaction(<<"2","0","2","4","-","0","3","-","1","5">>, <<"C","a","b">>, Cents(10000),
               "expense", Food, 0, Account),
   Transaction(<<"2","0","2","4","-","0","3","-","1","6">>, <<"P","a","y">>, Cents(3),
               "income", OtherIncome, 0, Account)}

\* the page shows one transaction that no rule touched, and the store holds
\* a split rule saved since
InitSplit ==
  /\ store \in {<<SplitRule(splits)>> : splits \in Files(AllocationCatalog, MaxAllocs)}
  /\ \E txn \in SplitInputs : base = Some(<<txn>>) /\ processed = <<Untouched(txn)>>
  /\ editorRules = None /\ now = 0 /\ calls = <<>>
  /\ iif = <<>> /\ iifResult = None /\ content = <<>> /\ vs = IIFStart /\ rows = <<>>
  /\ balErrors = <<>> /\ catIn = <<>> /\ catOnce = <<>> /\ catTwice = <<>>
  /\ parsed = <<>> /\ lastOp = None
  /\ validations = <<>> /\ exportLog = None /\ isLoading = FALSE /\ financeData = <<>> /\ qbo = None

NextSplit == \E ticks \in [1..MaxTicks -> BOOLEAN] : RulesChange(ticks)

SpecSplit == InitSplit /\ [][NextSplit]_vars

\* the walk as the claim tells it: what remains before the i-th allocation,
\* and what the i-th allocation consumes
RECURSIVE RemainderBefore(_, _, _)
RECURSIVE Consumed(_, _, _)
ConsumedOf(M, split, remainder) ==
  IF IsSome(split.fixedAmount) THEN Min(Get(split.fixedAmount), remainder)
  ELSE IF IsSome(split.percentage) THEN (M * Get(split.percentage)) \div 100
  ELSE remainder
Consumed(M, splits, i) == ConsumedOf(M, splits[i], RemainderBefore(M, splits, i))
RemainderBefore(M, splits, i) ==
  IF i = 1 THEN M ELSE RemainderBefore(M, splits, i - 1) - Consumed(M, splits, i - 1)

\* one fragment per allocation, holding to the cent what the allocation
\* consumes, and one more fragment exactly when what remains exceeds 0.01
WalkedTo(M, splits, output, remainder) ==
  /\ Len(output) = Len(splits) + (IF remainder > Tolerance THEN 1 ELSE 0)
  /\ \A i \in 1..Len(splits) :
       /\ output[i].amount = RoundCents(Consumed(M, splits, i))
       /\ output[i].category = splits[i].category
  /\ remainder > Tolerance =>
       /\ output[Len(output)].amount = RoundCents(remainder)
       /\ output[Len(output)].category = Uncategorized

WalkAsClaimed(M, splits, output) ==
  WalkedTo(M, splits, output, RemainderBefore(M, splits, Len(splits) + 1))

\* C20: a split application walks the allocations in order from a remainder
\* of M: a fixed amount consumes min(fixedAmount, remainder), a percentage
\* consumes M * percentage / 100, an allocation with neither consumes the
\* remainder; an 'Uncategorized' fragment with the remainder is appended
\* exactly when the remainder exceeds 0.01.
C20_SplitWalk ==
  \A k \in SplitCalls :
    WalkAsClaimed(calls[k].input.amount, Get(calls[k].rule.action.splits), calls[k].output)

\* C20: three tenths, then a fixed amount of 80.00 cut to the 70.00 that
\* remained, then three tenths of the original although nothing remained,
\* and no fragment for a remainder below zero
C20_CutFixedAmount ==
  /\ Len(calls) = 1 /\ 1 \in SplitCalls
  /\ calls[1].input.amount = Cents(10000)
  /\ Len(calls[1].output) = 3
  /\ calls[1].output[1].amount = Cents(3000)
  /\ calls[1].output[2].amount = Cents(7000)
  /\ calls[1].output[3].amount = Cents(3000)
  /\ IsSome(Get(calls[1].rule.action.splits)[2].fixedAmount)

-----------------------------------------------------------------------------
(* The tags of the fragments of one split application *)

\* one parent id on every fragment, the magnitude M of the transaction that
\* was split as original amount, and the ordinals 0, 1, ... in order
TaggedAsClaimed(M, output) ==
  /\ Len(output) >= 1
  /\ \A i \in 1..Len(output) :
       /\ IsSome(output[i].splitParentId)
       /\ output[i].splitParentId = output[1].splitParentId
       /\ output[i].originalAmount = Some(M)
       /\ output[i].splitIndex = Some(i - 1)

\* C21: the fragments one split application emits, the remainder fragment
\* included, share one splitParentId, carry the amount of the transaction
\* that was split as originalAmount, and have the splitIndex values
\* 0, 1, ..., k-1 in emission order.
C21_FragmentsTagged ==
  \A k \in SplitCalls : TaggedAsClaimed(calls[k].input.amount, calls[k].output)

\* C21: a split of two allocations that leaves a remainder, so that three
\* fragments are emitted, the last being the 'Uncategorized' one
C21_WithRemainderFragment ==
  /\ Len(calls) = 1 /\ 1 \in SplitCalls
  /\ Len(Get(calls[1].rule.action.splits)) = 2
  /\ Len(calls[1].output) = 3
  /\ calls[1].output[3].category = Uncategorized
  /\ calls[1].output[3].splitIndex = Some(2)
  /\ calls[1].output[1].amount # calls[1].input.amount

-----------------------------------------------------------------------------
(* The category categorizeTransaction gives a transaction that has none *)

\* the ordinals of the rules of which some pattern matches the lower-cased
\* description
Hits(txn) ==
  {k \in 1..Len(CATEGORY_RULES) :
     \E p \in 1..Len(CATEGORY_RULES[k].patterns) :
       RegexTest(CATEGORY_RULES[k].patterns[p], ToLower(txn.description))}

\* the category of the first rule among `among`, else the fallback
FirstOf(among, fallback) ==
  IF among = {} THEN fallback
  ELSE CATEGORY_RULES[CHOOSE k \in among : \A j \in among : k <= j].category

\* what the claim says of a transaction without category
CategoryAsClaimed(txn, hits, category) ==
  IF txn.type = "income"
  THEN /\ category = FirstOf(hits \cap (1..5), OtherIncome)
       /\ \A k \in 6..Len(CATEGORY_RULES) :
            category = CATEGORY_RULES[k].category
              => \E j \in 1..5 : CATEGORY_RULES[j].category = category
  ELSE category = FirstOf(hits, Other)

\* C22: for a transaction without category (none, or 'Uncategorized') an
\* income is matched against the first five rules only and gets 'Other Income'
\* when none matches; an expense is matched against every rule, the first
\* rule in list order with a matching pattern giving the category, and gets
\* 'Other' when none matches; an income never gets the category of a rule
\* from the sixth on.
C22_IncomeRulesForIncome ==
  IsSome(catOnce) =>
    \A i \in 1..Len(catIn) :
      ~Categorized(catIn[i])
        => CategoryAsClaimed(catIn[i], Hits(catIn[i]), Get(catOnce)[i].category)

\* C22: an income whose description only a rule past the fifth matches got
\* 'Other Income', and an expense that an income rule and a later rule match
\* got the income rule's category
C22_IncomeMatchingLateRule ==
  /\ IsSome(catOnce)
  /\ \E i \in 1..Len(catIn) :
       /\ ~Categorized(catIn[i]) /\ catIn[i].type = "income"
       /\ Hits(catIn[i]) # {} /\ Hits(catIn[i]) \cap (1..5) = {}
       /\ Get(catOnce)[i].category = OtherIncome
  /\ \E i \in 1..Len(catIn) :
       /\ ~Categorized(catIn[i]) /\ catIn[i].type = "expense"
       /\ Cardinality(Hits(catIn[i])) >= 2
       /\ Hits(catIn[i]) \cap (1..5) # {}
       /\ Get(catOnce)[i].category = CATEGORY_RULES[1].category

-----------------------------------------------------------------------------
(* parseQBO on statements of a few STMTTRN blocks *)

MaxBlocks == 3

\* an expense, an income posted with a time and a time zone, a check whose
\* amount is no number, and an income of the same day as the second
BlockCatalog == <<
  ("DTPOSTED" :> <<"2","0","2","4","0","3","1","5">>)
    @@ ("TRNAMT" :> <<"-","1","0","0",".","0","0">>) @@ ("NAME" :> <<"C","a","b">>),
  ("DTPOSTED" :> <<"2","0","2","4","0","3","1","6","1","2","0","0","0","0","[","-","5",":","E","S","T","]">>)
    @@ ("TRNAMT" :> <<" ","0",".","0","3">>) @@ ("NAME" :> <<"P","a","y">>)
    @@ ("MEMO" :> <<"m","a","y">>),
  ("DTPOSTED" :> <<"2","0","2","4","0","3","1","4">>)
    @@ ("TRNAMT" :> <<"n","/","a">>) @@ ("PAYEE" :> <<"G","y","m">>)
    @@ ("CHECKNUM" :> <<"7">>),
  ("DTPOSTED" :> <<"2","0","2","4","0","3","1","6">>)
    @@ ("TRNAMT" :> <<"+","5","0",".","2","5">>) @@ ("NAME" :> <<"T","i","p">>) >>

\* statements with a ledger balance, a negative one, one that is no number,
\* and none
StatementTags ==
  {("BALAMT" :> <<"1","0","0","0",".","0","0">>) @@ ("ACCTTYPE" :> <<"S","A","V","I","N","G","S">>)
     @@ ("ACCTID" :> <<"1","2","3","4","5","6">>),
   ("BALAMT" :> <<"-","5",".","2","5">>) @@ ("DTSTART" :> <<"2","0","2","4","0","3","0","1">>),
   ("BALAMT" :> <<"n","/","a">>),
   ("BANKID" :> <<"9">>)}

QBOName == <<"e","x","p","o","r","t",".","q","b","o">>

\* parseQBO(f.content, f.name) of the uploaded file
ParseQBO ==
  /\ qbo = None
  /\ qbo' = Some(parseQBO(financeData[1].statement, financeData[1].name))
  /\ parsed' = Get(qbo').transactions
  /\ UNCHANGED <<store, editorRules, now, base, processed, calls, iif, iifResult,
                 content, vs, rows, balErrors, catIn, catOnce, catTwice, lastOp,
                 validations, exportLog, isLoading, financeData>>

InitQbo ==
  /\ financeData \in
       {<<[name |-> QBOName,
           statement |-> [tags |-> t, blocks |-> b, creditCardMsgs |-> c]]>> :
          t \in StatementTags, b \in Files(BlockCatalog, MaxBlocks), c \in BOOLEAN}
  /\ qbo = None
  /\ store = <<>> /\ editorRules = None /\ now = 0 /\ base = None /\ processed = <<>>
  /\ calls = <<>> /\ iif = <<>> /\ iifResult = None /\ content = <<>> /\ vs = IIFStart
  /\ rows = <<>> /\ balErrors = <<>> /\ catIn = <<>> /\ catOnce = <<>> /\ catTwice = <<>>
  /\ parsed = <<>> /\ lastOp = None
  /\ validations = <<>> /\ exportLog = None /\ isLoading = TRUE

SpecQbo == InitQbo /\ [][ParseQBO]_vars

\* the signed amount of a returned transaction, and its two columns
SignedAmount(txn) == IF txn.type = "income" THEN txn.amount ELSE -txn.amount
DepositOf(txn) == IF txn.type = "income" THEN txn.amount ELSE 0
WithdrawalOf(txn) == IF txn.type = "expense" THEN txn.amount ELSE 0

RECURSIVE SumSigned(_)
SumSigned(txns) ==
  IF txns = <<>> THEN 0 ELSE SignedAmount(Head(txns)) + SumSigned(Tail(txns))

\* the balances as the claim tells them, a balance that is no number (NaN)
\* being told of NaN
ReconstructedAsClaimed(txns, startBalance, endBalance) ==
  /\ \A i \in 1..(Len(txns) - 1) :
       /\ IsSome(GetTime(txns[i].date)) /\ IsSome(GetTime(txns[i + 1].date))
       /\ Get(GetTime(txns[i].date)) >= Get(GetTime(txns[i + 1].date))
  /\ txns # <<>> => txns[1].balance = endBalance
  /\ \A i \in 1..(Len(txns) - 1) :
       txns[i + 1].balance = Less(txns[i].balance, SignedAmount(txns[i]))
  /\ startBalance = Less(endBalance, SumSigned(txns))
  /\ \A i \in 1..(Len(txns) - 1) :
       txns[i].balance
         = Less(Less(txns[i + 1].balance, WithdrawalOf(txns[i])), -DepositOf(txns[i]))

\* C23: parseQBO returns the transactions newest first with the newest one's
\* balance equal to the ledger ending balance, every next-older one's balance
\* equal to the newer one's balance minus the newer one's signed amount, and
\* startBalance equal to endBalance minus the sum of the signed amounts; the
\* rows satisfy balance[i] = balance[i+1] - withdrawal[i] + deposit[i].
C23_BalancesReconstructed ==
  IsSome(qbo) =>
    /\ Get(qbo).endBalance
         = EndBalance(extractTag(financeData[1].statement.tags, "BALAMT"))
    /\ Len(Get(qbo).transactions) = Len(financeData[1].statement.blocks)
    /\ ReconstructedAsClaimed(Get(qbo).transactions, Get(qbo).startBalance,
                              Get(qbo).endBalance)

\* C23: a ledger balance of 1000.00 and three blocks given oldest first, an
\* expense of 100.00 and an income of 0.03 among them: the income is the
\* newest and carries 1000.00, the expense carries 999.97, and the start
\* balance is 1099.97
C23_WalkedBackFromLedger ==
  /\ IsSome(qbo)
  /\ Get(qbo).endBalance = Some(Cents(100000))
  /\ Len(Get(qbo).transactions) = 3
  /\ financeData[1].statement.blocks[1] = BlockCatalog[3]
  /\ Get(qbo).transactions[1].type = "income"
  /\ Get(qbo).transactions[1].amount = Cents(3)
  /\ Get(qbo).transactions[1].balance = Some(Cents(100000))
  /\ Get(qbo).transactions[2].type = "expense"
  /\ Get(qbo).transactions[2].balance = Some(Cents(99997))
  /\ Get(qbo).startBalance = Some(Cents(109997))

-----------------------------------------------------------------------------
(* Rules with a regular expression that does not compile: the dashboard     *)
(* loads a statement and re-applies the rules, one such rule being stored   *)

\* an unterminated group and an unmatched closing parenthesis
OpenGroup == TextCondition("description", "regex", <<"(","a">>)
CloseGroup == TextCondition("category", "regex", <<"o",")">>)

RegexRules == <<
  CustomRule(<<0, 1>>, <<"a","l","l","1">>, TRUE, 10, <<OpenGroup>>, "AND",
             CategorizeAction(Some(Fun))),
  CustomRule(<<0, 2>>, <<"a","l","l","2">>, TRUE, 10, <<DescriptionHasA, OpenGroup>>, "AND",
             CategorizeAction(Some(Fun))),
  CustomRule(<<0, 3>>, <<"a","n","y","2">>, TRUE, 10, <<OpenGroup, DescriptionHasA>>, "OR",
             CategorizeAction(Some(Fun))),
  CustomRule(<<0, 4>>, <<"a","n","y","1">>, TRUE, 10, <<CloseGroup>>, "OR",
             RenameAction(Some(Taxi))),
  CustomRule(<<0, 5>>, <<"a","n","y","3">>, TRUE, 10,
             <<CloseGroup, AmountCondition(None, Some(Cents(100))), OpenGroup>>, "OR",
             SplitAction(Some(<<Percentage(Food, 50), Percentage(Home, 50)>>))),
  CustomRule(<<0, 6>>, <<"a","n","y","4">>, TRUE, 10,
             <<TextCondition("description", "regex", <<"(","g",".","m",")">>), CloseGroup>>,
             "OR", RenameAction(Some(Taxi))),
  CustomRule(<<0, 7>>, <<"a","l","l","3">>, TRUE, 10,
             <<AmountCondition(Some(Cents(5000)), None), CloseGroup>>, "AND",
             SplitAction(Some(<<Percentage(Food, 50), Percentage(Home, 50)>>))) >>

InitBroken == store \in {<<RegexRules[r]>> : r \in DOMAIN RegexRules} /\ Idle

NextBroken ==
  \/ \E rws \in Files(StatementRows, MaxTxns), ticks \in [1..MaxTicks -> BOOLEAN] :
       LoadDashboard(rws, ticks)
  \/ \E ticks \in [1..MaxTicks -> BOOLEAN] : RulesChange(ticks)

SpecBroken == InitBroken /\ [][NextBroken]_vars

\* a condition whose regular expression does not compile
Broken(condition) ==
  condition.field # "amount" /\ condition.matchType = "regex"
  /\ ~RegexCompiles(condition.value)

\* some condition of the rule that compiles matches the transaction
OtherMatches(rule, txn) ==
  \E c \in 1..Len(rule.conditions) :
    ~Broken(rule.conditions[c]) /\ matchesCondition(txn, rule.conditions[c])

\* applyRule was called for the i-th transaction
CalledFor(i) == \E k \in 1..Len(calls) : calls[k].txnNo = i

\* what the claim says of a rule with a condition that does not compile
BrokenAsClaimed(rule, transactions) ==
  \A i \in 1..Len(transactions) :
    CalledFor(i) <=> /\ rule.conditionLogic # "AND"
                     /\ OtherMatches(rule, Untouched(transactions[i]))

\* C24: a condition whose regular expression does not compile is false and
\* raises nothing: applyRules returns fragments for every transaction, a
\* rule that needs all its conditions and holds such a condition matches no
\* transaction, and a rule that needs any of its conditions matches exactly
\* the transactions that one of its other conditions matches.
C24_BrokenRegexIsFalse ==
  IsSome(base) /\ (\E c \in 1..Len(store[1].conditions) : Broken(store[1].conditions[c]))
    => /\ Len(processed) >= Len(Get(base))
       /\ BrokenAsClaimed(store[1], Get(base))

\* C24: a rule of any-logic whose first condition does not compile was
\* applied to one of two transactions, the one its other condition matches
C24_AppliedOnOtherCondition ==
  /\ IsSome(base) /\ Len(Get(base)) = 2
  /\ store[1].conditionLogic = "OR"
  /\ Broken(store[1].conditions[1])
  /\ \E i, j \in 1..2 : CalledFor(i) /\ ~CalledFor(j)

-----------------------------------------------------------------------------
(* The parent ids of the split applications of one applyRulesToAll *)

\* the parent id the k-th applyRule call gave its fragments
ParentIdOf(k) == Get(calls[k].output[1].splitParentId)

\* the fragments of the list that belong to the split group of parent id
GroupMembers(transactions, parentId) ==
  {i \in 1..Len(transactions) :
     InSplitGroup(transactions[i]) /\ transactions[i].splitParentId = Some(parentId)}

\* C25: two distinct split applications never generate the same
\* splitParentId, the clock standing still between them or not, so that no
\* group of groupSplitTransactions holds fragments of two applications.
C25_ParentIdsDistinct ==
  /\ \A k, l \in SplitCalls : k # l => ParentIdOf(k) # ParentIdOf(l)
  /\ \A k, l \in SplitCalls :
       calls[k].input.amount # calls[l].input.amount
         => \A i \in GroupMembers(processed, ParentIdOf(k)) :
              processed[i].originalAmount # Some(calls[l].input.amount)

-----------------------------------------------------------------------------
(* The split tag of the fragments applyRulesToAll returns *)

\* C26: every fragment applyRules returns that carries a splitParentId has
\* isSplit = true, whatever rules were applied to it after the split, so
\* that the exporter takes it as a member of its split group.
C26_FragmentsStaySplit ==
  \A i \in 1..Len(processed) :
    IsSome(processed[i].splitParentId)
      => processed[i].isSplit = Some(TRUE) /\ isSplitTransaction(processed[i])

-----------------------------------------------------------------------------
(* The rule store with room for two rules: the store functions called in    *)
(* any order                                                                *)

MaxKept == 2

\* a backup whose two rules carry one id, next to the other texts
BackupTexts ==
  ImportTexts
  \cup {[kind |-> "array",
         rules |-> <<[ValidDraft EXCEPT !.id = id], [UnnamedDraft EXCEPT !.id = id]>>] :
          id \in RuleIds}

InitIds == store = <<>> /\ Idle

NextIds ==
  \/ AddRule(MaxKept)
  \/ UpdateRule(MaxKept)
  \/ DeleteRule(MaxKept)
  \/ ImportRules(MaxKept, BackupTexts)

SpecIds == InitIds /\ [][NextIds]_vars

\* C27: after any sequence of addRule, updateRule, deleteRule, importRules
\* (merging or replacing) and editor saves from an empty store, no two rules
\* of the persisted collection share an id.
C27_IdsDistinct ==
  \A i, j \in 1..Len(store) : i # j => store[i].id # store[j].id

\* the ids of the rules of a list
IdsOf(rules) == {rules[i].id : i \in 1..Len(rules)}

\* what the claim says of a call that fails: what it returns, and the
\* stored list after it
FailsAsClaimed(call, before, after) ==
  /\ call.op = "deleteRule" /\ call.arg.id \notin IdsOf(before)
       => call.result = FALSE /\ after = before
  /\ call.op = "updateRule" /\ call.arg.id \notin IdsOf(before)
       => call.result = None /\ after = before
  /\ call.op = "importRules" /\ call.arg.json.kind # "array"
       => call.result = 0 /\ after = before

\* the step is a call of a store function: lastOp is written anew
NewCall(before, after) ==
  /\ IsSome(after)
  /\ \/ ~IsSome(before)
     \/ Get(before).op # Get(after).op
     \/ /\ Get(before).op = Get(after).op
        /\ <<Get(before).arg, Get(before).result>> # <<Get(after).arg, Get(after).result>>

\* C28: deleteRule with an id that is not in the store returns false,
\* updateRule with such an id returns null, importRules of a text that does
\* not parse or is no array returns 0, and each leaves the stored rule list
\* as it was.
C28_FailedCallsChangeNothing ==
  [][NewCall(lastOp, lastOp') => FailsAsClaimed(Get(lastOp'), store, store')]_vars

\* C28: two rules are stored and the last call, an import of a text that
\* does not parse, returned 0
C28_FailedImportOnFullStore ==
  /\ Len(store) = 2
  /\ IsSome(lastOp)
  /\ Get(lastOp).op = "importRules"
  /\ Get(lastOp).arg.json.kind = "garbage"
  /\ Get(lastOp).result = 0

-----------------------------------------------------------------------------
(* The editor next to the dashboard: a statement is loaded, the list is     *)
(* exported, and rules are saved, toggled and deleted in the editor         *)

InitEditor == store \in {<<>>, <<RuleCatalog[1]>>} /\ Idle

NextEditor ==
  \/ \E rws \in Files(StatementRows, MaxTxns), ticks \in [1..MaxTicks -> BOOLEAN] :
       LoadDashboard(rws, ticks)
  \/ ExportIIF
  \/ EditorOpen
  \/ EditorClose
  \/ EditorSave(MaxStored)
  \/ EditorToggle(MaxStored)
  \/ EditorDelete

SpecEditor == InitEditor /\ [][NextEditor]_vars

\* the list the page shows is the base list with the persisted rules applied
ShownAsClaimed(shown, transactions, stored) ==
  SameButIds(shown, Expected(transactions, stored))

\* an editor handler changed the rules: the editor was and stays open
Notified(before, after, storedBefore, storedAfter) ==
  /\ IsSome(before) /\ IsSome(after)
  /\ before # after \/ storedBefore # storedAfter

\* C29: after every rules-change notification of the editor the processed
\* list is applyRulesToAll of the base list under the persisted rules, never
\* the rules applied to a list they were applied to before, and the export
\* validation is cleared: a validation that is shown is that of the export
\* of the processed list.
C29_RulesReappliedToBase ==
  /\ [](IsSome(base) => ShownAsClaimed(processed, Get(base), store))
  /\ [](IsSome(iifResult)
          => Get(iifResult) = validateIIF(generateIIF(processed, DEFAULT_OPTIONS)))
  /\ [][Notified(editorRules, editorRules', store, store') => iifResult' = None]_vars

\* C29: the list was exported, then a rule was changed in the editor: the
\* validation is gone and the page shows the fragments of a split
C29_ClearedAfterExport ==
  /\ IsSome(base) /\ IsSome(editorRules)
  /\ IsSome(exportLog) /\ Get(exportLog) # <<>>
  /\ iifResult = None
  /\ store # <<>> /\ store[1].enabled
  /\ Len(processed) > Len(Get(base))

-----------------------------------------------------------------------------
(* What applyRules leaves alone: handleRulesChange with any rules of the     *)
(* catalog in the store and one transaction on the page                      *)

\* an expense of 100.00 categorized Food, an income of 0.03, and an expense
\* of 0.50 whose description ends in B, each with a balance
FrameInputs ==
  {Transaction(<<"2","0","2","4","-","0","3","-","1","5">>, <<"C","a","b">>, Cents(10000),
               "expense", Food, Cents(50000), Account),
   Transaction(<<"2","0","2","4","-","0","3","-","1","6">>, <<"P","a","y">>, Cents(3),
               "income", OtherIncome, Cents(50003), Account),
   Transaction(<<"2","0","2","4","-","0","3","-","1","4">>, <<"P","u","b">>, Cents(50),
               "expense", Fun, Cents(-50), Account)}

InitFrame ==
  /\ store \in Lists(RuleCatalog, MaxRules)
  /\ \E txn \in FrameInputs : base = Some(<<txn>>) /\ processed = <<Untouched(txn)>>
  /\ editorRules = None /\ now = 0 /\ calls = <<>>
  /\ iif = <<>> /\ iifResult = None /\ content = <<>> /\ vs = IIFStart /\ rows = <<>>
  /\ balErrors = <<>> /\ catIn = <<>> /\ catOnce = <<>> /\ catTwice = <<>>
  /\ parsed = <<>> /\ lastOp = None
  /\ validations = <<>> /\ exportLog = None /\ isLoading = FALSE /\ financeData = <<>> /\ qbo = None

NextFrame == \E ticks \in [1..MaxTicks -> BOOLEAN] : RulesChange(ticks)

SpecFrame == InitFrame /\ [][NextFrame]_vars

\* the fragment has the date, type, account and balance of the transaction,
\* and is the transaction but for description, category, amount and the
\* split tags
FrameKept(transaction, fragment) ==
  /\ fragment.date = transaction.date
  /\ fragment.type = transaction.type
  /\ fragment.account = transaction.account
  /\ fragment.balance = transaction.balance
  /\ [fragment EXCEPT !.description = transaction.description,
                      !.category = transaction.category,
                      !.amount = transaction.amount,
                      !.isSplit = transaction.isSplit,
                      !.splitParentId = transaction.splitParentId,
                      !.splitIndex = transaction.splitIndex,
                      !.originalAmount = transaction.originalAmount,
                      !.splitMemo = transaction.splitMemo] = transaction

FrameAsClaimed(transaction, results) ==
  /\ results # <<>>
  /\ \A i \in 1..Len(results) : FrameKept(transaction, results[i])

\* C30: applyRules never returns an empty list, and every fragment it
\* returns carries the date, type, account and balance of the input
\* transaction: only description, category, amount and the split tags may
\* differ from the input.
C30_FrameKept ==
  /\ IsSome(base) /\ Len(Get(base)) = 1
  /\ FrameAsClaimed(Get(base)[1], processed)
  /\ \A k \in 1..Len(calls) :
       /\ calls[k].output # <<>>
       /\ \A i \in 1..Len(calls[k].output) : FrameKept(calls[k].input, calls[k].output[i])

\* C30: the expense of 100.00 was split in halves and each half renamed, so
\* that description, category and amount differ from the input while the
\* balance is the input's
C30_SplitThenRenamed ==
  /\ Len(calls) = 3
  /\ Len(processed) = 2
  /\ processed[1].description = Taxi
  /\ processed[1].category = Food /\ processed[2].category = Home
  /\ processed[1].amount = Cents(5000)
  /\ Get(base)[1].amount = Cents(10000)
  /\ processed[2].balance = Cents(50000)

====
